---- MODULE Spec2Model ----
(***************************************************************************)
(* The job / contract lifecycle, the settlement split and the withdrawal   *)
(* check of src/app.py, as a state machine over the store's tables.        *)
(*                                                                         *)
(* Every handler is a sequence of store round trips.  Each round trip is   *)
(* one step of the model, so that two requests served at the same time     *)
(* interleave between their store calls exactly as the request-per-thread  *)
(* server lets them.                                                       *)
(***************************************************************************)
EXTENDS Integers, Sequences, FiniteSets, TLC

(***************************************************************************)
(* Binary64 arithmetic.  Money is a Python float in the source.  A float   *)
(* of the model is the exact value times 2^55, written as five limbs in    *)
(* base 2^15, least significant limb first.  Every value the handlers      *)
(* compute is a multiple of 2^-55 below 2^13, so this is exact; each       *)
(* operation rounds its exact result to 53 significant bits, ties to even, *)
(* as IEEE 754 does.                                                       *)
(***************************************************************************)
Base == 2^15

LZero == <<0, 0, 0, 0, 0>>

LOne == <<1, 0, 0, 0, 0>>

\* a five-limb function as a tuple
Limbs(f) == <<f[1], f[2], f[3], f[4], f[5]>>

\* int -> float: n * 2^55 = (n * 2^10) * Base^3
FromInt(n) == <<0, 0, 0, (n * 1024) % Base, (n * 1024) \div Base>>

LAdd(x, y) ==
    LET c[i \in 0..Len(x)] ==
            IF i = 0 THEN 0 ELSE (x[i] + y[i] + c[i - 1]) \div Base
    IN  Limbs([i \in 1..Len(x) |-> (x[i] + y[i] + c[i - 1]) % Base])

\* x - y for x >= y
LSub(x, y) ==
    LET b[i \in 0..Len(x)] ==
            IF i = 0 THEN 0 ELSE IF x[i] - y[i] - b[i - 1] < 0 THEN 1 ELSE 0
    IN  Limbs([i \in 1..Len(x) |-> (x[i] - y[i] - b[i - 1]) % Base])

LMulSmall(x, m) ==
    LET c[i \in 0..Len(x)] ==
            IF i = 0 THEN 0 ELSE (x[i] * m + c[i - 1]) \div Base
    IN  Limbs([i \in 1..Len(x) |-> (x[i] * m + c[i - 1]) % Base])

\* the remainder carried into limb i when dividing by d, from the top limb down
LRem(x, d) ==
    LET r[i \in 1..(Len(x) + 1)] ==
            IF i = Len(x) + 1 THEN 0 ELSE (r[i + 1] * Base + x[i]) % d
    IN  r

LDivSmall(x, d) ==
    LET r == LRem(x, d)
    IN  Limbs([i \in 1..Len(x) |-> (r[i + 1] * Base + x[i]) \div d])

LModSmall(x, d) == LRem(x, d)[1]

LLess(x, y) ==
    \E i \in 1..Len(x) :
        /\ x[i] < y[i]
        /\ \A j \in (i + 1)..Len(x) : x[j] = y[j]

BitLen(n) == CHOOSE k \in 0..15 : n < 2^k /\ (k = 0 \/ 2^(k - 1) <= n)

LBitLen(x) ==
    IF x = LZero THEN 0
    ELSE LET t == CHOOSE i \in 1..Len(x) :
                      x[i] # 0 /\ \A j \in (i + 1)..Len(x) : x[j] = 0
         IN  15 * (t - 1) + BitLen(x[t])

\* round to 53 significant bits, ties to even; sticky says that the exact value
\* lies strictly above x (bits were already dropped below the last limb)
Round53(x, sticky) ==
    LET k == LBitLen(x) - 53
    IN  IF k <= 0 THEN x
        ELSE LET d    == 2^k
                 q    == LDivSmall(x, d)
                 r    == LModSmall(x, d)
                 half == d \div 2
                 up   == r > half \/ (r = half /\ (sticky \/ q[1] % 2 = 1))
             IN  LMulSmall(IF up THEN LAdd(q, LOne) ELSE q, d)

\* float + float, float - float (x >= y), int * float
FAdd(x, y) == Round53(LAdd(x, y), FALSE)

FSub(x, y) == Round53(LSub(x, y), FALSE)

FMulInt(n, f) == Round53(LMulSmall(f, n), FALSE)

\* int / int, correctly rounded: also how a decimal literal n/d is read
FDivInt(n, d) ==
    LET x == FromInt(n)
        q == LDivSmall(x, d)
        r == LModSmall(x, d)
    IN  IF LBitLen(q) > 53 THEN Round53(q, r # 0)
        ELSE IF 2 * r > d \/ (2 * r = d /\ q[1] % 2 = 1) THEN LAdd(q, LOne)
        ELSE q

\* sum(float(x) for x in ...): Python adds left to right, starting from the int 0
RECURSIVE FSum(_)
FSum(xs) == IF xs = <<>> THEN LZero ELSE FAdd(FSum(SubSeq(xs, 1, Len(xs) - 1)), xs[Len(xs)])

\* a share of 80%
F080 == FDivInt(80, 100)

\* the literals 0.85 and 0.15 of the two completion handlers
F085 == FDivInt(85, 100)

F015 == FDivInt(15, 100)

(***************************************************************************)
(* The store and the requests.                                             *)
(***************************************************************************)
VARIABLES
    supabase,       \* TRUE when the module-level client was created
    workers,        \* how many requests the server handles at once
    artisan_seq,    \* the last id the artisans table gave out
    artisans,       \* artisans table: id -> row
    jobs,           \* jobs table: a row's id is its index
    payments,       \* payments table, in insertion order
    withdrawals,    \* withdrawals table, in insertion order
    notifications,  \* notifications table, in insertion order
    project_requests, \* project_requests table: id -> row
    sessions,       \* the session cookies that logins have issued
    requests,       \* the requests: not yet made, being handled, or answered
    faults          \* the store calls that have raised so far

vars == <<supabase, workers, artisan_seq, artisans, jobs, payments, withdrawals,
          notifications, project_requests, sessions, requests, faults>>

tables == <<artisans, jobs, payments, withdrawals, notifications>>

\* Python's None, SQL's NULL
None == 0

\* session['user_id'] of the admin, and the user_id its notifications go to
AdminId == 999

\* the requests one behaviour makes, those handled at once, and the store calls
\* that may raise
MaxRequests == 3

MaxInFlight == 2

MaxFaults == 1

ArtisanIds == {1, 2}

ClientIds == {1}

\* base prices and negotiated amounts, in whole cedis
Prices == {13, 150}

\* the rating and review fields of the completion form
Reviews == {[rating |-> 5, review |-> "good"], [rating |-> 1, review |-> "poor"]}

JobStatuses == {"Pending", "In Progress", "Completed"}

Slots == 1..MaxRequests

NoSession == [user_id |-> None, role |-> "none"]

ClientSession(c) == [user_id |-> c, role |-> "general"]

ArtisanSession(a) == [user_id |-> a, role |-> "artisan"]

AdminSession == [user_id |-> AdminId, role |-> "admin"]

\* 'user_id' not in session or session['role'] != 'artisan'
NotArtisan(s) == s = NoSession \/ s.role # "artisan"

\* a guard that asks for a login only
login_required(s) == s # NoSession

\* admin_required lets the request through to the handler
admin_required(s) == s # NoSession /\ s.role = "admin"

NoRequest ==
    [op |-> "none", pc |-> "idle", session |-> NoSession, job_id |-> None,
     form |-> <<>>, amount |-> 0, artisan_id |-> None, client_id |-> None,
     total_earned |-> LZero, total_withdrawn |-> LZero, response |-> "none",
     listed |-> {}]

InFlight == {r \in Slots : requests[r].pc \notin {"idle", "done"}}

\* request r arrives: the slots are used in order
Arrives(r) ==
    /\ requests[r].pc = "idle"
    /\ \A q \in 1..(r - 1) : requests[q].pc # "idle"
    /\ Cardinality(InFlight) < workers

At(r, op, pc) == requests[r].op = op /\ requests[r].pc = pc

\* the request as it arrives
Start(op, s, j, form) ==
    [NoRequest EXCEPT !.op = op, !.session = s, !.job_id = j, !.form = form]

\* request r, now q, goes on to its next store call
Goto(r, q, pc) == requests' = [requests EXCEPT ![r] = [q EXCEPT !.pc = pc]]

\* the handler returns: what is left of the request is the exchange
Answer(r, q, resp) ==
    requests' = [requests EXCEPT ![r] =
                    [Start(q.op, q.session, q.job_id, q.form)
                         EXCEPT !.pc = "done", !.response = resp]]

\* the handler returns a page or a count made from the jobs ids
AnswerList(r, q, resp, ids) ==
    requests' = [requests EXCEPT ![r] =
                    [Start(q.op, q.session, q.job_id, q.form)
                         EXCEPT !.pc = "done", !.response = resp, !.listed = ids]]

\* execute() raises: the handler's except branch answers resp
Raises(r, q, resp) ==
    /\ faults < MaxFaults
    /\ faults' = faults + 1
    /\ Answer(r, q, resp)
    /\ UNCHANGED <<supabase, workers, artisan_seq, project_requests, tables, sessions>>

JobIds == 1..Len(jobs)

\* texts are sequences of characters
Accra == <<"A", "c", "c", "r", "a">>

Tema == <<"T", "e", "m", "a">>

CapeCoast == <<"C", "a", "p", "e", " ", "C", "o", "a", "s", "t">>

\* the location that admin_assign_job gives its jobs (line 316)
ClientSite == <<"C", "l", "i", "e", "n", "t", " ", "S", "i", "t", "e">>

\* a row of the artisans table
Artisan(phone, price, verified, subscribed) ==
    [phone |-> phone, password |-> "pw", price_range |-> price,
     is_verified |-> verified, subscription_active |-> subscribed,
     status |-> "Available", rating |-> 5, town |-> Accra]

NoReview == ""

\* a row of the jobs table just inserted; recent tells whether created_at is
\* within the five minutes that check_new_jobs looks back
NewJob(client, artisan, amount) ==
    [client_id |-> client, artisan_id |-> artisan, amount |-> amount,
     status |-> "Pending", rating |-> None, review |-> NoReview,
     declined_by |-> None, location |-> Accra, recent |-> TRUE]

(***************************************************************************)
(* POST /complete_job/<job_id>: the client confirms completion.            *)
(***************************************************************************)
\* the session check and the select of the job's amount and artisan
complete_job(r, s, j, form) ==
    /\ Arrives(r)
    /\ LET q == Start("complete_job", s, j, form)
       IN  IF s = NoSession
           THEN Answer(r, q, "redirect_login") /\ UNCHANGED <<faults, tables>>
           ELSE IF ~supabase
           THEN Answer(r, q, "flash_success") /\ UNCHANGED <<faults, tables>>
           ELSE \/ /\ IF j \in JobIds
                      THEN Goto(r, [q EXCEPT !.amount = jobs[j].amount,
                                             !.artisan_id = jobs[j].artisan_id],
                                "update")
                      ELSE Answer(r, q, "flash_success")
                   /\ UNCHANGED <<faults, tables>>
                \/ Raises(r, q, "flash_error")
    /\ UNCHANGED <<supabase, workers, artisan_seq, project_requests, sessions>>

\* the update of the job's status, rating and review
complete_job_update(r) ==
    /\ At(r, "complete_job", "update")
    /\ LET q == requests[r]
       IN  \/ /\ jobs' = [jobs EXCEPT ![q.job_id] =
                             [@ EXCEPT !.status = "Completed",
                                       !.rating = q.form.rating,
                                       !.review = q.form.review]]
              /\ Goto(r, q, "insert")
              /\ UNCHANGED <<faults, artisans, payments, withdrawals, notifications>>
           \/ Raises(r, q, "flash_error")
    /\ UNCHANGED <<supabase, workers, artisan_seq, project_requests, sessions>>

\* the insert of the payment
complete_job_insert(r) ==
    /\ At(r, "complete_job", "insert")
    /\ LET q == requests[r]
       IN  \/ /\ payments' = Append(payments,
                     [job_id |-> q.job_id,
                      artisan_id |-> q.artisan_id,
                      total_amount |-> q.amount,
                      artisan_amount |-> FMulInt(q.amount, F085),
                      platform_commission |-> FMulInt(q.amount, F015),
                      status |-> "Completed",
                      client_id |-> q.session.user_id])
              /\ Answer(r, q, "flash_success")
              /\ UNCHANGED <<faults, artisans, jobs, withdrawals, notifications>>
           \/ Raises(r, q, "flash_error")
    /\ UNCHANGED <<supabase, workers, artisan_seq, project_requests, sessions>>

(***************************************************************************)
(* POST /artisan/complete-job/<job_id>: the artisan marks the job complete.*)
(***************************************************************************)
\* the session check and the select of the job's amount and client
artisan_complete_job(r, s, j) ==
    /\ Arrives(r)
    /\ LET q == Start("artisan_complete_job", s, j, <<>>)
       IN  IF NotArtisan(s)
           THEN Answer(r, q, "401") /\ UNCHANGED <<faults, tables>>
           ELSE IF ~supabase
           THEN Answer(r, q, "success") /\ UNCHANGED <<faults, tables>>
           ELSE \/ /\ IF j \in JobIds
                      THEN Goto(r, [q EXCEPT !.amount = jobs[j].amount,
                                             !.client_id = jobs[j].client_id],
                                "update")
                      ELSE Answer(r, q, "success")
                   /\ UNCHANGED <<faults, tables>>
                \/ Raises(r, q, "500")
    /\ UNCHANGED <<supabase, workers, artisan_seq, project_requests, sessions>>

artisan_complete_job_update(r) ==
    /\ At(r, "artisan_complete_job", "update")
    /\ LET q == requests[r]
       IN  \/ /\ jobs' = [jobs EXCEPT ![q.job_id].status = "Completed"]
              /\ Goto(r, q, "insert")
              /\ UNCHANGED <<faults, artisans, payments, withdrawals, notifications>>
           \/ Raises(r, q, "500")
    /\ UNCHANGED <<supabase, workers, artisan_seq, project_requests, sessions>>

\* the insert with the payment recorded as Completed at once
artisan_complete_job_insert_completed(r) ==
    /\ At(r, "artisan_complete_job", "insert")
    /\ LET q == requests[r]
       IN  \/ /\ payments' = Append(payments,
                     [job_id |-> q.job_id,
                      artisan_id |-> q.session.user_id,
                      client_id |-> q.client_id,
                      total_amount |-> q.amount,
                      artisan_amount |-> FMulInt(q.amount, F085),
                      platform_commission |-> FMulInt(q.amount, F015),
                      status |-> "Completed"])
              /\ Goto(r, q, "notify")
              /\ UNCHANGED <<faults, artisans, jobs, withdrawals, notifications>>
           \/ Raises(r, q, "500")
    /\ UNCHANGED <<supabase, workers, artisan_seq, project_requests, sessions>>

\* the insert of the payment
artisan_complete_job_insert(r) ==
    /\ At(r, "artisan_complete_job", "insert")
    /\ LET q == requests[r]
       IN  \/ /\ payments' = Append(payments,
                     [job_id |-> q.job_id,
                      artisan_id |-> q.session.user_id,
                      client_id |-> q.client_id,
                      total_amount |-> q.amount,
                      artisan_amount |-> FMulInt(q.amount, F085),
                      platform_commission |-> FMulInt(q.amount, F015),
                      status |-> "Processing"])
              /\ Goto(r, q, "notify")
              /\ UNCHANGED <<faults, artisans, jobs, withdrawals, notifications>>
           \/ Raises(r, q, "500")
    /\ UNCHANGED <<supabase, workers, artisan_seq, project_requests, sessions>>

artisan_complete_job_notify(r) ==
    /\ At(r, "artisan_complete_job", "notify")
    /\ LET q == requests[r]
       IN  \/ /\ notifications' = Append(notifications,
                     [user_id |-> q.client_id, type |-> "job_complete"])
              /\ Answer(r, q, "success")
              /\ UNCHANGED <<faults, artisans, jobs, payments, withdrawals>>
           \/ Raises(r, q, "500")
    /\ UNCHANGED <<supabase, workers, artisan_seq, project_requests, sessions>>

(***************************************************************************)
(* POST /admin/project/<job_id>/update_details                             *)
(***************************************************************************)
admin_update_project_details(r, s, j, form) ==
    /\ Arrives(r)
    /\ LET q == Start("admin_update_project_details", s, j, form)
       IN  IF ~admin_required(s)
           THEN Answer(r, q, "redirect_index") /\ UNCHANGED <<faults, tables>>
           ELSE IF ~supabase
           \* None has no attribute table: the except branch
           THEN Answer(r, q, "flash_error") /\ UNCHANGED <<faults, tables>>
           ELSE \/ /\ jobs' = IF j \in JobIds
                              THEN [jobs EXCEPT ![j] =
                                       [@ EXCEPT !.status = form.status,
                                                 !.amount = form.amount]]
                              ELSE jobs
                   /\ Answer(r, q, "flash_success")
                   /\ UNCHANGED <<faults, artisans, payments, withdrawals, notifications>>
                \/ Raises(r, q, "flash_error")
    /\ UNCHANGED <<supabase, workers, artisan_seq, project_requests, sessions>>

(***************************************************************************)
(* POST /artisan/accept-job/<job_id>                                       *)
(***************************************************************************)
\* the session check and the update that assigns the job
accept_job(r, s, j) ==
    /\ Arrives(r)
    /\ LET q == Start("accept_job", s, j, <<>>)
       IN  IF NotArtisan(s)
           THEN Answer(r, q, "401") /\ UNCHANGED <<faults, tables>>
           ELSE IF ~supabase
           THEN Answer(r, q, "success") /\ UNCHANGED <<faults, tables>>
           ELSE \/ /\ jobs' = IF j \in JobIds
                              THEN [jobs EXCEPT ![j] =
                                       [@ EXCEPT !.artisan_id = s.user_id,
                                                 !.status = "In Progress"]]
                              ELSE jobs
                   /\ Goto(r, q, "select")
                   /\ UNCHANGED <<faults, artisans, payments, withdrawals, notifications>>
                \/ Raises(r, q, "500")
    /\ UNCHANGED <<supabase, workers, artisan_seq, project_requests, sessions>>

\* the select of the job's client
accept_job_select(r) ==
    /\ At(r, "accept_job", "select")
    /\ LET q == requests[r]
       IN  \/ /\ IF q.job_id \in JobIds
                 THEN Goto(r, [q EXCEPT !.client_id = jobs[q.job_id].client_id], "notify")
                 ELSE Answer(r, q, "success")
              /\ UNCHANGED <<faults, tables>>
           \/ Raises(r, q, "500")
    /\ UNCHANGED <<supabase, workers, artisan_seq, project_requests, sessions>>

\* the insert of the client's notification
accept_job_notify(r) ==
    /\ At(r, "accept_job", "notify")
    /\ LET q == requests[r]
       IN  \/ /\ notifications' = Append(notifications,
                     [user_id |-> q.client_id, type |-> "job_update"])
              /\ Answer(r, q, "success")
              /\ UNCHANGED <<faults, artisans, jobs, payments, withdrawals>>
           \/ Raises(r, q, "500")
    /\ UNCHANGED <<supabase, workers, artisan_seq, project_requests, sessions>>

(***************************************************************************)
(* POST /artisan/decline-job/<job_id>                                      *)
(***************************************************************************)
\* the session check and the update that clears the assignment
decline_job(r, s, j) ==
    /\ Arrives(r)
    /\ LET q == Start("decline_job", s, j, <<>>)
       IN  IF NotArtisan(s)
           THEN Answer(r, q, "401") /\ UNCHANGED <<faults, tables>>
           ELSE IF ~supabase
           THEN Answer(r, q, "success") /\ UNCHANGED <<faults, tables>>
           ELSE \/ /\ jobs' = IF j \in JobIds
                              THEN [jobs EXCEPT ![j] =
                                       [@ EXCEPT !.artisan_id = None,
                                                 !.status = "Pending",
                                                 !.declined_by = s.user_id]]
                              ELSE jobs
                   /\ Goto(r, q, "select")
                   /\ UNCHANGED <<faults, artisans, payments, withdrawals, notifications>>
                \/ Raises(r, q, "500")
    /\ UNCHANGED <<supabase, workers, artisan_seq, project_requests, sessions>>

\* the select of the job's location, which nothing uses
decline_job_select(r) ==
    /\ At(r, "decline_job", "select")
    /\ LET q == requests[r]
       IN  \/ Answer(r, q, "success") /\ UNCHANGED <<faults, tables>>
           \/ Raises(r, q, "500")
    /\ UNCHANGED <<supabase, workers, artisan_seq, project_requests, sessions>>

(***************************************************************************)
(* POST /artisan/request-withdrawal                                        *)
(***************************************************************************)
\* what all of the artisan's payments earned, whatever their status
TotalEarnedAnyStatus(a) ==
    LET Mine(p) == p.artisan_id = a
        rows == SelectSeq(payments, Mine)
    IN  FSum([i \in DOMAIN rows |-> rows[i].artisan_amount])

\* lines 1323-1329: what the artisan's Completed payments earned
TotalEarned(a) ==
    LET Mine(p) == p.artisan_id = a /\ p.status = "Completed"
        rows == SelectSeq(payments, Mine)
    IN  FSum([i \in DOMAIN rows |-> rows[i].artisan_amount])

\* lines 1332-1338: what the artisan's approved withdrawals took
TotalWithdrawn(a) ==
    LET Mine(w) == w.artisan_id = a /\ w.status = "approved"
        rows == SelectSeq(withdrawals, Mine)
    IN  FSum([i \in DOMAIN rows |-> rows[i].amount])

\* the minimum withdrawal of line 1317
MinWithdrawal == 10

\* amount < 10
BelowMinimum(amount) == LLess(amount, FromInt(MinWithdrawal))

\* the check without the withdrawals: amount > total_earned
InsufficientOfEarned(amount, earned, withdrawn) == LLess(earned, amount)

\* amount > total_earned - total_withdrawn: the difference is negative when more
\* was withdrawn than earned, and then every amount that passed the minimum exceeds it
Insufficient(amount, earned, withdrawn) ==
    IF LLess(earned, withdrawn) THEN TRUE
    ELSE LLess(FSub(earned, withdrawn), amount)

\* the session check, the minimum, and the select of the payments
request_withdrawal(r, s, amount) ==
    /\ Arrives(r)
    /\ LET q == Start("request_withdrawal", s, None, [amount |-> FromInt(amount)])
       IN  IF NotArtisan(s)
           THEN Answer(r, q, "401") /\ UNCHANGED <<faults, tables>>
           ELSE IF BelowMinimum(q.form.amount)
           THEN Answer(r, q, "400 minimum") /\ UNCHANGED <<faults, tables>>
           ELSE IF ~supabase
           THEN Answer(r, q, "success") /\ UNCHANGED <<faults, tables>>
           ELSE \/ /\ Goto(r, [q EXCEPT !.total_earned = TotalEarned(s.user_id)],
                           "withdrawals")
                   /\ UNCHANGED <<faults, tables>>
                \/ Raises(r, q, "500")
    /\ UNCHANGED <<supabase, workers, artisan_seq, project_requests, sessions>>

\* the select of the approved withdrawals, and the balance check
request_withdrawal_check(r) ==
    /\ At(r, "request_withdrawal", "withdrawals")
    /\ LET q == requests[r]
           withdrawn == TotalWithdrawn(q.session.user_id)
       IN  \/ /\ IF Insufficient(q.form.amount, q.total_earned, withdrawn)
                 THEN Answer(r, q, "400 insufficient")
                 ELSE Goto(r, [q EXCEPT !.total_withdrawn = withdrawn], "insert")
              /\ UNCHANGED <<faults, tables>>
           \/ Raises(r, q, "500")
    /\ UNCHANGED <<supabase, workers, artisan_seq, project_requests, sessions>>

\* the insert with the withdrawal recorded as approved at once
request_withdrawal_insert_approved(r) ==
    /\ At(r, "request_withdrawal", "insert")
    /\ LET q == requests[r]
       IN  \/ /\ withdrawals' = Append(withdrawals,
                     [artisan_id |-> q.session.user_id,
                      amount |-> q.form.amount,
                      status |-> "approved"])
              /\ Goto(r, q, "notify")
              /\ UNCHANGED <<faults, artisans, jobs, payments, notifications>>
           \/ Raises(r, q, "500")
    /\ UNCHANGED <<supabase, workers, artisan_seq, project_requests, sessions>>

\* the insert of the withdrawal
request_withdrawal_insert(r) ==
    /\ At(r, "request_withdrawal", "insert")
    /\ LET q == requests[r]
       IN  \/ /\ withdrawals' = Append(withdrawals,
                     [artisan_id |-> q.session.user_id,
                      amount |-> q.form.amount,
                      status |-> "pending"])
              /\ Goto(r, q, "notify")
              /\ UNCHANGED <<faults, artisans, jobs, payments, notifications>>
           \/ Raises(r, q, "500")
    /\ UNCHANGED <<supabase, workers, artisan_seq, project_requests, sessions>>

\* the insert of the admin's notification
request_withdrawal_notify(r) ==
    /\ At(r, "request_withdrawal", "notify")
    /\ LET q == requests[r]
       IN  \/ /\ notifications' = Append(notifications,
                     [user_id |-> AdminId, type |-> "withdrawal"])
              /\ Answer(r, q, "success")
              /\ UNCHANGED <<faults, artisans, jobs, payments, withdrawals>>
           \/ Raises(r, q, "500")
    /\ UNCHANGED <<supabase, workers, artisan_seq, project_requests, sessions>>

\* The admin approves a pending withdrawal.  No handler of app.py writes a
\* withdrawal's status: the admin does it in the store, and request_withdrawal
\* reads the result (line 1335).  The approval is the external action of the
\* specification's section on money, which respects the balance: what is
\* approved stays within what the artisan's Completed payments earned.
approve_withdrawal(w) ==
    /\ w \in DOMAIN withdrawals
    /\ withdrawals[w].status = "pending"
    /\ LET a == withdrawals[w].artisan_id
       IN  ~LLess(TotalEarned(a), LAdd(TotalWithdrawn(a), withdrawals[w].amount))
    /\ withdrawals' = [withdrawals EXCEPT ![w].status = "approved"]
    /\ UNCHANGED <<supabase, workers, artisan_seq, project_requests, artisans, jobs,
                   payments, notifications, sessions, requests, faults>>

(***************************************************************************)
(* GET /artisan/dashboard and POST /artisan/login                          *)
(***************************************************************************)
\* the pairs of an upper case letter and its lower case letter
CasePairs ==
    {<<"A", "a">>, <<"C", "c">>, <<"E", "e">>, <<"M", "m">>, <<"O", "o">>,
     <<"P", "p">>, <<"R", "r">>, <<"S", "s">>, <<"T", "t">>}

\* the character without its case
Fold(c) == IF \E p \in CasePairs : p[1] = c
           THEN (CHOOSE p \in CasePairs : p[1] = c)[2]
           ELSE c

RECURSIVE ilike(_, _)
\* the store's ilike filter: % stands for any characters, _ for any one
\* character, every other character for itself in either case
ilike(text, pattern) ==
    IF pattern = <<>> THEN text = <<>>
    ELSE IF Head(pattern) = "%"
    THEN ilike(text, Tail(pattern)) \/ (text # <<>> /\ ilike(Tail(text), pattern))
    ELSE /\ text # <<>>
         /\ Head(pattern) = "_" \/ Fold(Head(text)) = Fold(Head(pattern))
         /\ ilike(Tail(text), Tail(pattern))

\* the town of the row that get_artisan_data returns: the artisan's row, or
\* the default data when the row is missing
get_artisan_data(s) ==
    IF s.user_id \in DOMAIN artisans THEN artisans[s.user_id].town ELSE Accra

\* .eq('status', 'Pending').ilike('location', f'%{town}%')
PendingIn(town) ==
    {j \in JobIds : /\ jobs[j].status = "Pending"
                    /\ ilike(jobs[j].location, <<"%">> \o town \o <<"%">>)}

\* what get_available_jobs and get_artisan_stats make of the jobs: the
\* filtered jobs, those of the default town when the artisan's select raises,
\* none when the jobs select raises
AvailableJobs(r, q, resp) ==
    IF ~supabase
    THEN AnswerList(r, q, resp, {}) /\ UNCHANGED faults
    ELSE \/ AnswerList(r, q, resp, PendingIn(get_artisan_data(q.session)))
            /\ UNCHANGED faults
         \/ /\ faults < MaxFaults
            /\ faults' = faults + 1
            /\ \E ids \in {PendingIn(Accra), {}} : AnswerList(r, q, resp, ids)

\* the page is rendered for any artisan session; its reads change nothing
artisan_dashboard(r, s) ==
    /\ Arrives(r)
    /\ LET q == Start("artisan_dashboard", s, None, <<>>)
       IN  IF NotArtisan(s)
           THEN Answer(r, q, "redirect_login") /\ UNCHANGED faults
           ELSE AvailableJobs(r, q, "artisan_dashboard.html")
    /\ UNCHANGED <<supabase, workers, artisan_seq, project_requests, tables, sessions>>

\* GET /artisan/jobs
artisan_jobs(r, s) ==
    /\ Arrives(r)
    /\ LET q == Start("artisan_jobs", s, None, <<>>)
       IN  IF NotArtisan(s)
           THEN Answer(r, q, "redirect_login") /\ UNCHANGED faults
           ELSE AvailableJobs(r, q, "artisan_jobs.html")
    /\ UNCHANGED <<supabase, workers, artisan_seq, project_requests, tables, sessions>>

\* GET /artisan/check-new-jobs
check_new_jobs(r, s) ==
    /\ Arrives(r)
    /\ LET q == Start("check_new_jobs", s, None, <<>>)
       IN  IF NotArtisan(s)
           THEN Answer(r, q, "401") /\ UNCHANGED faults
           ELSE IF ~supabase \/ s.user_id \notin DOMAIN artisans
           THEN \/ AnswerList(r, q, "new_jobs", {}) /\ UNCHANGED faults
                \/ supabase /\ Raises(r, q, "500")
           ELSE \/ /\ AnswerList(r, q, "new_jobs",
                           {j \in PendingIn(artisans[s.user_id].town) : jobs[j].recent})
                   /\ UNCHANGED faults
                \/ Raises(r, q, "500")
    /\ UNCHANGED <<supabase, workers, artisan_seq, project_requests, tables, sessions>>

\* the redirect with the subscription looked at first
LoginRedirectBySubscription(artisan) ==
    IF ~artisan.subscription_active THEN "pending payment"
    ELSE IF ~artisan.is_verified THEN "pending docs"
    ELSE "artisan_dashboard"

\* lines 1555-1561: where a login sends the artisan
LoginRedirect(artisan) ==
    IF ~artisan.is_verified THEN "pending docs"
    ELSE IF ~artisan.subscription_active THEN "pending payment"
    ELSE "artisan_dashboard"

artisan_login(r, phone, password) ==
    /\ Arrives(r)
    /\ LET q == Start("artisan_login", NoSession, None,
                      [phone |-> phone, password |-> password])
           found == {a \in DOMAIN artisans : artisans[a].phone = phone}
       IN  IF ~supabase
           THEN Answer(r, q, "artisan_login_page") /\ UNCHANGED <<sessions, faults>>
           ELSE \/ /\ found # {}
                   /\ \E a \in found :
                          IF artisans[a].password = password
                          THEN /\ sessions' = sessions \cup {ArtisanSession(a)}
                               /\ Answer(r, q, LoginRedirect(artisans[a]))
                          ELSE /\ sessions' = sessions
                               /\ Answer(r, q, "artisan_login_page")
                   /\ UNCHANGED faults
                \/ /\ found = {}
                   /\ Answer(r, q, "artisan_login_page")
                   /\ UNCHANGED <<sessions, faults>>
                \/ /\ Raises(r, q, "artisan_login_page")
    /\ UNCHANGED <<supabase, workers, artisan_seq, project_requests, tables>>

(***************************************************************************)
(* The admin's onboarding actions: GET /admin/approve/<artisan_id>,        *)
(* /admin/reject/<artisan_id>, /admin/confirm-sub/<artisan_id>.            *)
(***************************************************************************)
\* update(...).eq('id', a): the rows of the table with the fields set in row a
SetFlag(a, verified, subscribed) ==
    IF a \in DOMAIN artisans
    THEN [artisans EXCEPT ![a] = [@ EXCEPT !.is_verified = verified,
                                           !.subscription_active = subscribed]]
    ELSE artisans

\* delete().eq('id', a)
Without(a) == [x \in DOMAIN artisans \ {a} |-> artisans[x]]

IsVerified(a) == a \in DOMAIN artisans /\ artisans[a].is_verified

IsSubscribed(a) == a \in DOMAIN artisans /\ artisans[a].subscription_active

admin_approve(r, s, a) ==
    /\ Arrives(r)
    /\ LET q == Start("admin_approve", s, None, [artisan_id |-> a])
       IN  IF ~admin_required(s)
           THEN Answer(r, q, "redirect_index") /\ UNCHANGED <<faults, tables>>
           ELSE IF ~supabase
           THEN Answer(r, q, "redirect_admin_dashboard") /\ UNCHANGED <<faults, tables>>
           ELSE \/ /\ artisans' = SetFlag(a, TRUE, IsSubscribed(a))
                   /\ Answer(r, q, "flash_success")
                   /\ UNCHANGED <<faults, jobs, payments, withdrawals, notifications>>
                \/ Raises(r, q, "flash_error")
    /\ UNCHANGED <<supabase, workers, artisan_seq, project_requests, sessions>>

admin_reject(r, s, a) ==
    /\ Arrives(r)
    /\ LET q == Start("admin_reject", s, None, [artisan_id |-> a])
       IN  IF ~admin_required(s)
           THEN Answer(r, q, "redirect_index") /\ UNCHANGED <<faults, tables>>
           ELSE IF ~supabase
           THEN Answer(r, q, "flash_success") /\ UNCHANGED <<faults, tables>>
           ELSE \/ /\ artisans' = Without(a)
                   /\ Answer(r, q, "flash_success")
                   /\ UNCHANGED <<faults, jobs, payments, withdrawals, notifications>>
                \/ Raises(r, q, "flash_error")
    /\ UNCHANGED <<supabase, workers, artisan_seq, project_requests, sessions>>

admin_confirm_sub(r, s, a) ==
    /\ Arrives(r)
    /\ LET q == Start("admin_confirm_sub", s, None, [artisan_id |-> a])
       IN  IF ~admin_required(s)
           THEN Answer(r, q, "redirect_index") /\ UNCHANGED <<faults, tables>>
           ELSE IF ~supabase
           THEN Answer(r, q, "flash_success") /\ UNCHANGED <<faults, tables>>
           ELSE \/ /\ artisans' = SetFlag(a, IsVerified(a), TRUE)
                   /\ Answer(r, q, "flash_success")
                   /\ UNCHANGED <<faults, jobs, payments, withdrawals, notifications>>
                \/ Raises(r, q, "flash_error")
    /\ UNCHANGED <<supabase, workers, artisan_seq, project_requests, sessions>>

(***************************************************************************)
(* POST /artisan/confirm-payment: the artisan says the subscription is     *)
(* paid.                                                                   *)
(***************************************************************************)
confirm_payment(r, s) ==
    /\ Arrives(r)
    /\ LET q == Start("confirm_payment", s, None, <<>>)
       IN  IF NotArtisan(s)
           THEN Answer(r, q, "401") /\ UNCHANGED <<faults, tables>>
           ELSE IF ~supabase
           THEN Answer(r, q, "success") /\ UNCHANGED <<faults, tables>>
           ELSE \/ /\ artisans' = SetFlag(s.user_id, IsVerified(s.user_id), TRUE)
                   /\ Answer(r, q, "success")
                   /\ UNCHANGED <<faults, jobs, payments, withdrawals, notifications>>
                \/ Raises(r, q, "500")
    /\ UNCHANGED <<supabase, workers, artisan_seq, project_requests, sessions>>

(***************************************************************************)
(* The pages that route an artisan by stage: GET /artisan/check-status-page*)
(* and GET /pending/<stage>; and POST /login, which also logs artisans in. *)
(***************************************************************************)
check_status_page(r, s) ==
    /\ Arrives(r)
    /\ LET q == Start("check_status_page", s, None, <<>>)
       IN  IF NotArtisan(s)
           THEN Answer(r, q, "redirect_login") /\ UNCHANGED faults
           ELSE IF ~supabase
           THEN Answer(r, q, "pending docs") /\ UNCHANGED faults
           ELSE \/ /\ IF s.user_id \in DOMAIN artisans
                      THEN Answer(r, q, LoginRedirect(artisans[s.user_id]))
                      ELSE Answer(r, q, "pending docs")
                   /\ UNCHANGED faults
                \* the except branch prints, and the last line answers
                \/ /\ Raises(r, q, "pending docs")
    /\ UNCHANGED <<supabase, workers, artisan_seq, project_requests, tables, sessions>>

\* lines 1459-1464: the stage the pending page shows
ActualStage(artisan) ==
    IF artisan.is_verified /\ artisan.subscription_active THEN "complete"
    ELSE IF artisan.is_verified /\ ~artisan.subscription_active THEN "payment"
    ELSE "docs"

Stages == {"docs", "payment", "complete"}

\* the page is rendered with a stage; stage is the one of the URL
pending_approval(r, s, stage) ==
    /\ Arrives(r)
    /\ LET q == Start("pending_approval", s, None, [stage |-> stage])
       IN  IF NotArtisan(s)
           THEN Answer(r, q, "redirect_login") /\ UNCHANGED faults
           ELSE IF ~supabase
           THEN Answer(r, q, stage) /\ UNCHANGED faults
           ELSE \/ /\ IF s.user_id \in DOMAIN artisans
                      THEN Answer(r, q, ActualStage(artisans[s.user_id]))
                      ELSE Answer(r, q, "redirect_logout")
                   /\ UNCHANGED faults
                \* the except branch prints, and the page shows the URL's stage
                \/ /\ Raises(r, q, stage)
    /\ UNCHANGED <<supabase, workers, artisan_seq, project_requests, tables, sessions>>

\* the JSON of lines 671-674: the two flags as stored
StatusJson(artisan) ==
    IF artisan.is_verified
    THEN IF artisan.subscription_active THEN "verified subscribed"
         ELSE "verified unsubscribed"
    ELSE IF artisan.subscription_active THEN "unverified subscribed"
         ELSE "unverified unsubscribed"

\* GET /artisan/check-status: the flags, for the pending page's polling
check_artisan_status(r, s) ==
    /\ Arrives(r)
    /\ LET q == Start("check_artisan_status", s, None, <<>>)
       IN  IF NotArtisan(s)
           THEN Answer(r, q, "401") /\ UNCHANGED faults
           ELSE IF ~supabase
           THEN Answer(r, q, "404") /\ UNCHANGED faults
           ELSE \/ /\ IF s.user_id \in DOMAIN artisans
                      THEN Answer(r, q, StatusJson(artisans[s.user_id]))
                      ELSE Answer(r, q, "404")
                   /\ UNCHANGED faults
                \/ /\ Raises(r, q, "500")
    /\ UNCHANGED <<supabase, workers, artisan_seq, project_requests, tables, sessions>>

\* werkzeug's salted hash, and its check
generate_password_hash(password) == <<"hash", password>>

check_password_hash(pwhash, password) == pwhash = generate_password_hash(password)

\* the users table: the clients (no handler of the model writes it)
Users ==
    <<[email |-> "client@mail", password |-> generate_password_hash("pw"),
       role |-> "general"]>>

AdminEmail == "ekpebright57@gmail.com"

AdminPassword == "1234567890"

\* the admin's credentials, then the select of the users table by email
login(r, email, password) ==
    /\ Arrives(r)
    /\ LET q == Start("login", NoSession, None, [email |-> email, password |-> password])
           found == {u \in DOMAIN Users : Users[u].email = email}
       IN  IF email = AdminEmail /\ password = AdminPassword
           THEN /\ sessions' = sessions \cup {AdminSession}
                /\ Answer(r, q, "admin_dashboard")
                /\ UNCHANGED faults
           ELSE IF ~supabase
           \* the mock login of the demo
           THEN /\ sessions' = sessions \cup {ClientSession(1)}
                /\ Answer(r, q, "index")
                /\ UNCHANGED faults
           ELSE \/ /\ found # {}
                   /\ \E u \in found :
                          IF check_password_hash(Users[u].password, password)
                          THEN /\ sessions' = sessions \cup
                                      {[user_id |-> u, role |-> Users[u].role]}
                               /\ Answer(r, q, "index")
                          ELSE /\ sessions' = sessions
                               /\ Answer(r, q, "login.html")
                   /\ UNCHANGED faults
                \/ /\ found = {}
                   /\ Goto(r, q, "artisans")
                   /\ UNCHANGED <<sessions, faults>>
                \/ /\ Raises(r, q, "login.html")
    /\ UNCHANGED <<supabase, workers, artisan_seq, project_requests, tables>>

\* the select of the artisans table by phone, the email field being the phone
login_artisans(r) ==
    /\ At(r, "login", "artisans")
    /\ LET q == requests[r]
           found == {a \in DOMAIN artisans : artisans[a].phone = q.form.email}
       IN  \/ /\ found # {}
              /\ \E a \in found :
                     IF artisans[a].password = q.form.password
                     THEN /\ sessions' = sessions \cup {ArtisanSession(a)}
                          /\ Answer(r, q, LoginRedirect(artisans[a]))
                     ELSE /\ sessions' = sessions
                          /\ Answer(r, q, "login.html")
              /\ UNCHANGED faults
           \/ /\ found = {}
              /\ Answer(r, q, "login.html")
              /\ UNCHANGED <<sessions, faults>>
           \/ /\ Raises(r, q, "login.html")
    /\ UNCHANGED <<supabase, workers, artisan_seq, project_requests, tables>>

(***************************************************************************)
(* POST /book/<artisan_id>: the client books an artisan.                   *)
(***************************************************************************)
\* the session check and the select of the artisan: eq('id', a), eq('is_verified', True)
book_artisan(r, s, a) ==
    /\ Arrives(r)
    /\ LET q == Start("book_artisan", s, None, [artisan_id |-> a])
       IN  IF s = NoSession
           THEN Answer(r, q, "redirect_login") /\ UNCHANGED faults
           ELSE IF ~supabase
           THEN Answer(r, q, "redirect_index") /\ UNCHANGED faults
           ELSE \/ /\ IF IsVerified(a)
                      THEN Goto(r, [q EXCEPT !.artisan_id = a,
                                             !.amount = artisans[a].price_range],
                                "insert")
                      ELSE Answer(r, q, "redirect_index")
                   /\ UNCHANGED faults
                \* the except branch prints, and no artisan was found
                \/ /\ Raises(r, q, "redirect_index")
    /\ UNCHANGED <<supabase, workers, artisan_seq, project_requests, tables, sessions>>

\* the insert of a job that costs nothing
book_artisan_insert_free(r) ==
    /\ At(r, "book_artisan", "insert")
    /\ LET q == requests[r]
       IN  \/ /\ jobs' = Append(jobs, NewJob(q.session.user_id, q.artisan_id, 0))
              /\ Answer(r, q, "flash_success")
              /\ UNCHANGED <<faults, artisans, payments, withdrawals, notifications>>
           \/ Raises(r, q, "booking.html")
    /\ UNCHANGED <<supabase, workers, artisan_seq, project_requests, sessions>>

\* the insert of the job
book_artisan_insert(r) ==
    /\ At(r, "book_artisan", "insert")
    /\ LET q == requests[r]
       IN  \/ /\ jobs' = Append(jobs, NewJob(q.session.user_id, q.artisan_id, q.amount))
              /\ Answer(r, q, "flash_success")
              /\ UNCHANGED <<faults, artisans, payments, withdrawals, notifications>>
           \/ Raises(r, q, "booking.html")
    /\ UNCHANGED <<supabase, workers, artisan_seq, project_requests, sessions>>

(***************************************************************************)
(* POST /artisan/register, and the two profile updates that write an       *)
(* artisan's phone: POST /update_profile and POST /artisan/update-profile. *)
(***************************************************************************)
\* the texts of the price field that int() reads as a number
PriceOf == ("150" :> 150) @@ ("500" :> 500) @@ ("600" :> 600)

\* lines 599-602: int(...) of the field, 0 when int raises
ParsePrice(text) == IF text \in DOMAIN PriceOf THEN PriceOf[text] ELSE 0

\* the cap of line 604
PriceCap == 500

\* the cap with a hundred cedis of slack
OverCapWithSlack(price_range) == price_range > PriceCap + 100

\* price_range > 500
OverCap(price_range) == price_range > PriceCap

\* the price check, then the select of the artisans with the form's phone
artisan_register(r, form) ==
    /\ Arrives(r)
    /\ LET q == Start("artisan_register", NoSession, None, form)
           price_range == ParsePrice(form.price_range)
       IN  IF OverCap(price_range)
           THEN Answer(r, q, "flash_cap") /\ UNCHANGED <<faults, tables>>
           ELSE IF ~supabase
           THEN Answer(r, q, "flash_submitted") /\ UNCHANGED <<faults, tables>>
           ELSE \/ /\ IF \E a \in DOMAIN artisans : artisans[a].phone = form.phone
                      THEN Answer(r, q, "flash_phone_registered")
                      ELSE Goto(r, [q EXCEPT !.amount = price_range], "insert")
                   /\ UNCHANGED <<faults, tables>>
                \/ Raises(r, q, "flash_error")
    /\ UNCHANGED <<supabase, workers, artisan_seq, project_requests, sessions>>

\* the insert of the artisan: the table gives the row the next id
artisan_register_insert(r) ==
    /\ At(r, "artisan_register", "insert")
    /\ LET q == requests[r]
       IN  \/ /\ artisan_seq' = artisan_seq + 1
              /\ artisans' = artisans @@
                     (artisan_seq + 1 :> Artisan(q.form.phone, q.amount, FALSE, FALSE))
              /\ Answer(r, q, "flash_submitted")
              /\ UNCHANGED <<faults, jobs, payments, withdrawals, notifications>>
           \/ Raises(r, q, "flash_error")
    /\ UNCHANGED <<supabase, workers, project_requests, sessions>>

\* update({...phone...}).eq('id', a)
SetPhone(a, phone) ==
    IF a \in DOMAIN artisans THEN [artisans EXCEPT ![a].phone = phone] ELSE artisans

update_profile(r, s, phone) ==
    /\ Arrives(r)
    /\ LET q == Start("update_profile", s, None, [phone |-> phone])
       IN  IF s = NoSession
           THEN Answer(r, q, "redirect_login") /\ UNCHANGED <<faults, tables>>
           ELSE IF ~supabase \/ s.role \notin {"general", "artisan"}
           THEN Answer(r, q, "flash_success") /\ UNCHANGED <<faults, tables>>
           ELSE \/ /\ artisans' = IF s.role = "artisan"
                                  THEN SetPhone(s.user_id, phone)
                                  \* the users table takes the update
                                  ELSE artisans
                   /\ Answer(r, q, "flash_success")
                   /\ UNCHANGED <<faults, jobs, payments, withdrawals, notifications>>
                \/ Raises(r, q, "flash_error")
    /\ UNCHANGED <<supabase, workers, artisan_seq, project_requests, sessions>>

update_artisan_profile(r, s, form) ==
    /\ Arrives(r)
    /\ LET q == Start("update_artisan_profile", s, None, form)
           a == s.user_id
       IN  IF NotArtisan(s)
           THEN Answer(r, q, "401") /\ UNCHANGED <<faults, tables>>
           ELSE IF ~supabase
           THEN Answer(r, q, "success") /\ UNCHANGED <<faults, tables>>
           ELSE \/ /\ artisans' =
                         IF a \in DOMAIN artisans
                         THEN [artisans EXCEPT ![a] =
                                  [@ EXCEPT !.phone = form.phone,
                                            !.price_range = form.price_range]]
                         ELSE artisans
                   /\ Answer(r, q, "success")
                   /\ UNCHANGED <<faults, jobs, payments, withdrawals, notifications>>
                \/ Raises(r, q, "500")
    /\ UNCHANGED <<supabase, workers, artisan_seq, project_requests, sessions>>

(***************************************************************************)
(* POST /admin/assign_job: the admin turns a project request into a job.   *)
(***************************************************************************)
\* the guard and the insert of the job
admin_assign_job(r, s, form) ==
    /\ Arrives(r)
    /\ LET q == Start("admin_assign_job", s, None, form)
       IN  IF ~admin_required(s)
           THEN Answer(r, q, "redirect_index") /\ UNCHANGED <<faults, tables>>
           ELSE IF ~supabase
           THEN Answer(r, q, "flash_success") /\ UNCHANGED <<faults, tables>>
           ELSE \/ /\ jobs' = Append(jobs,
                         [NewJob(form.client_id, form.artisan_id, form.final_amount)
                              EXCEPT !.location = ClientSite])
                   /\ Goto(r, q, "request")
                   /\ UNCHANGED <<faults, artisans, payments, withdrawals, notifications>>
                \/ Raises(r, q, "flash_error")
    /\ UNCHANGED <<supabase, workers, artisan_seq, project_requests, sessions>>

\* the update that marks the project request Approved
admin_assign_job_request(r) ==
    /\ At(r, "admin_assign_job", "request")
    /\ LET q  == requests[r]
           id == q.form.request_id
       IN  \/ /\ project_requests' =
                     IF id \in DOMAIN project_requests
                     THEN [project_requests EXCEPT ![id].status = "Approved"]
                     ELSE project_requests
              /\ Goto(r, q, "artisan")
              /\ UNCHANGED <<faults, tables>>
           \/ Raises(r, q, "flash_error") /\ UNCHANGED project_requests
    /\ UNCHANGED <<supabase, workers, artisan_seq, sessions>>

\* the update that marks the artisan Busy
admin_assign_job_artisan(r) ==
    /\ At(r, "admin_assign_job", "artisan")
    /\ LET q == requests[r]
           a == q.form.artisan_id
       IN  \/ /\ artisans' = IF a \in DOMAIN artisans
                             THEN [artisans EXCEPT ![a].status = "Busy"]
                             ELSE artisans
              /\ Answer(r, q, "flash_success")
              /\ UNCHANGED <<faults, jobs, payments, withdrawals, notifications>>
           \/ Raises(r, q, "flash_error")
    /\ UNCHANGED <<supabase, workers, artisan_seq, project_requests, sessions>>

(***************************************************************************)
(* The settlement specification: one job in progress, and the requests     *)
(* that complete it or edit it.                                            *)
(***************************************************************************)
\* both artisans through onboarding, as book_artisan requires of the one booked
Onboarded ==
    (1 :> Artisan("0201", 150, TRUE, TRUE)) @@ (2 :> Artisan("0202", 13, TRUE, TRUE))

NoRequests == [r \in Slots |-> NoRequest]

\* a job booked by client 1 with artisan a at the artisan's price, and accepted
InProgress(a) ==
    [NewJob(1, a, Onboarded[a].price_range) EXCEPT !.status = "In Progress"]

Init ==
    /\ supabase = TRUE
    /\ workers \in 1..MaxInFlight
    /\ artisan_seq = 2
    /\ artisans = Onboarded
    /\ project_requests = <<>>
    /\ \E a \in ArtisanIds : jobs = <<InProgress(a)>>
    /\ payments = <<>>
    /\ withdrawals = <<>>
    /\ notifications = <<>>
    /\ sessions = {ClientSession(1), AdminSession} \cup {ArtisanSession(a) : a \in ArtisanIds}
    /\ requests = NoRequests
    /\ faults = 0

\* what the admin's edit form posts
AdminForms == [status : JobStatuses, amount : Prices]

Next ==
    \/ \E r \in Slots, c \in ClientIds, j \in JobIds, form \in Reviews :
           complete_job(r, ClientSession(c), j, form)
    \/ \E r \in Slots : complete_job_update(r)
    \/ \E r \in Slots : complete_job_insert(r)
    \/ \E r \in Slots, a \in ArtisanIds, j \in JobIds :
           artisan_complete_job(r, ArtisanSession(a), j)
    \/ \E r \in Slots : artisan_complete_job_update(r)
    \/ \E r \in Slots : artisan_complete_job_insert(r)
    \/ \E r \in Slots : artisan_complete_job_notify(r)
    \/ \E r \in Slots, j \in JobIds, form \in AdminForms :
           admin_update_project_details(r, AdminSession, j, form)

Spec == Init /\ [][Next]_vars

(***************************************************************************)
(* The withdrawal specification: artisan 1's job is completed by the       *)
(* client, the artisan asks for withdrawals, the admin approves them.  The *)
(* store is connected and answers every call.                              *)
(***************************************************************************)
\* what a withdrawal request asks for, in whole cedis
WithdrawalAmounts == {5, 10, 100}

InitWithdraw ==
    /\ supabase = TRUE
    /\ workers \in 1..MaxInFlight
    /\ artisan_seq = 2
    /\ artisans = Onboarded
    /\ project_requests = <<>>
    /\ jobs = <<InProgress(1)>>
    /\ payments = <<>>
    /\ withdrawals = <<>>
    /\ notifications = <<>>
    /\ sessions = {ClientSession(1), ArtisanSession(1)}
    /\ requests = NoRequests
    /\ faults = MaxFaults

NextWithdraw ==
    \/ \E r \in Slots, j \in JobIds :
           complete_job(r, ClientSession(1), j, [rating |-> 5, review |-> "good"])
    \/ \E r \in Slots : complete_job_update(r)
    \/ \E r \in Slots : complete_job_insert(r)
    \/ \E r \in Slots, s \in sessions, amount \in WithdrawalAmounts :
           request_withdrawal(r, s, amount)
    \/ \E r \in Slots : request_withdrawal_check(r)
    \/ \E r \in Slots : request_withdrawal_insert(r)
    \/ \E r \in Slots : request_withdrawal_notify(r)
    \/ \E w \in DOMAIN withdrawals : approve_withdrawal(w)

SpecWithdraw == InitWithdraw /\ [][NextWithdraw]_vars

(***************************************************************************)
(* The accept specification: a job that its booked artisan declined, so    *)
(* that it is Pending and unassigned, and two artisans who accept it.      *)
(***************************************************************************)
Declined(a) == [NewJob(1, None, Onboarded[a].price_range) EXCEPT !.declined_by = a]

InitAccept ==
    /\ supabase = TRUE
    /\ workers \in 1..MaxInFlight
    /\ artisan_seq = 2
    /\ artisans = Onboarded
    /\ project_requests = <<>>
    /\ \E a \in ArtisanIds : jobs = <<Declined(a)>>
    /\ payments = <<>>
    /\ withdrawals = <<>>
    /\ notifications = <<>>
    /\ sessions = {ArtisanSession(a) : a \in ArtisanIds}
    /\ requests = NoRequests
    /\ faults = 0

NextAccept ==
    \/ \E r \in Slots, s \in sessions, j \in JobIds : accept_job(r, s, j)
    \/ \E r \in Slots : accept_job_select(r)
    \/ \E r \in Slots : accept_job_notify(r)

SpecAccept == InitAccept /\ [][NextAccept]_vars

(***************************************************************************)
(* The gate specification: artisan 1 has not finished onboarding, artisan  *)
(* 2 has and holds a booked job; artisans log in and use the artisan       *)
(* operations.                                                             *)
(***************************************************************************)
Passwords == {"pw", "wrong"}

InitGate ==
    /\ supabase = TRUE
    /\ workers \in 1..MaxInFlight
    /\ artisan_seq = 2
    /\ project_requests = <<>>
    /\ \E verified \in BOOLEAN :
           artisans = (1 :> Artisan("0201", 150, verified, FALSE))
                        @@ (2 :> Artisan("0202", 13, TRUE, TRUE))
    /\ jobs = <<NewJob(1, 2, 13)>>
    /\ payments = <<>>
    /\ withdrawals = <<>>
    /\ notifications = <<>>
    /\ sessions = {}
    /\ requests = NoRequests
    /\ faults = 0

NextGate ==
    \/ \E r \in Slots, a \in ArtisanIds, password \in Passwords :
           artisan_login(r, artisans[a].phone, password)
    \/ \E r \in Slots, s \in sessions : artisan_dashboard(r, s)
    \/ \E r \in Slots, s \in sessions, j \in JobIds : accept_job(r, s, j)
    \/ \E r \in Slots : accept_job_select(r)
    \/ \E r \in Slots : accept_job_notify(r)
    \/ \E r \in Slots, s \in sessions, j \in JobIds : decline_job(r, s, j)
    \/ \E r \in Slots : decline_job_select(r)
    \/ \E r \in Slots, s \in sessions, j \in JobIds : artisan_complete_job(r, s, j)
    \/ \E r \in Slots : artisan_complete_job_update(r)
    \/ \E r \in Slots : artisan_complete_job_insert(r)
    \/ \E r \in Slots : artisan_complete_job_notify(r)
    \/ \E r \in Slots, s \in sessions, amount \in WithdrawalAmounts :
           request_withdrawal(r, s, amount)
    \* no payment is Completed here, so the check answers every request
    \/ \E r \in Slots : request_withdrawal_check(r)

SpecGate == InitGate /\ [][NextGate]_vars

(***************************************************************************)
(* The onboarding specification: artisan 1 has registered and logged in,   *)
(* artisan 2 is through onboarding; the admin approves, rejects and        *)
(* confirms, the artisan confirms a payment and asks where to go, a client *)
(* books.                                                                  *)
(***************************************************************************)
Applicant == (1 :> Artisan("0201", 150, FALSE, FALSE)) @@ (2 :> Artisan("0202", 13, TRUE, TRUE))

InitStage ==
    /\ supabase = TRUE
    /\ workers \in 1..MaxInFlight
    /\ artisan_seq = 2
    /\ artisans = Applicant
    /\ project_requests = <<>>
    /\ jobs = <<>>
    /\ payments = <<>>
    /\ withdrawals = <<>>
    /\ notifications = <<>>
    /\ sessions = {ClientSession(1), AdminSession, ArtisanSession(1)}
    /\ requests = NoRequests
    /\ faults = 0

\* what the login forms post
LoginNames == {"0201", "client@mail"}

NextStage ==
    \/ \E r \in Slots : admin_approve(r, AdminSession, 1)
    \/ \E r \in Slots : admin_reject(r, AdminSession, 1)
    \/ \E r \in Slots : admin_confirm_sub(r, AdminSession, 1)
    \/ \E r \in Slots : confirm_payment(r, ArtisanSession(1))
    \/ \E r \in Slots : check_status_page(r, ArtisanSession(1))
    \/ \E r \in Slots, stage \in Stages : pending_approval(r, ArtisanSession(1), stage)
    \/ \E r \in Slots : check_artisan_status(r, ArtisanSession(1))
    \/ \E r \in Slots : artisan_dashboard(r, ArtisanSession(1))
    \/ \E r \in Slots, email \in LoginNames : login(r, email, "pw")
    \/ \E r \in Slots : login_artisans(r)
    \/ \E r \in Slots : artisan_login(r, "0201", "pw")
    \/ \E r \in Slots : book_artisan(r, ClientSession(1), 1)
    \/ \E r \in Slots : book_artisan_insert(r)

SpecStage == InitStage /\ [][NextStage]_vars

(***************************************************************************)
(* The registration specification: two artisans are registered and logged  *)
(* in; more register, and artisans and the client edit their profiles.     *)
(***************************************************************************)
\* a phone that is registered and one that is not
Phones == {"0201", "0203"}

\* the texts of the registration form's price field
PriceTexts == {"150", "500", "600", "abc"}

RegisterForms == [phone : Phones, price_range : PriceTexts]

\* what the artisan's profile editor posts
ProfileForms == [phone : Phones, price_range : {150, 600}]

\* with a store, two artisans and two users logged in; without one (supabase
\* is None), no table and nobody logged in
InitRegister ==
    /\ supabase \in BOOLEAN
    /\ workers \in 1..MaxInFlight
    /\ artisan_seq = IF supabase THEN 2 ELSE 0
    /\ artisans = IF supabase THEN Onboarded ELSE <<>>
    /\ project_requests = <<>>
    /\ jobs = <<>>
    /\ payments = <<>>
    /\ withdrawals = <<>>
    /\ notifications = <<>>
    /\ sessions = IF supabase THEN {ClientSession(1), ArtisanSession(2)} ELSE {}
    /\ requests = NoRequests
    /\ faults = 0

NextRegister ==
    \/ \E r \in Slots, form \in RegisterForms : artisan_register(r, form)
    \/ \E r \in Slots : artisan_register_insert(r)
    \/ \E r \in Slots, s \in sessions, phone \in Phones : update_profile(r, s, phone)
    \/ \E r \in Slots, s \in sessions, form \in ProfileForms :
           s.role = "artisan" /\ update_artisan_profile(r, s, form)

SpecRegister == InitRegister /\ [][NextRegister]_vars

(***************************************************************************)
(* The admin specification: the admin's operations, requested by the       *)
(* admin, by a client, by an artisan and by a visitor without a session.   *)
(***************************************************************************)
\* a brief under review, and the assignment the admin's form makes of it
UnderReview == [status |-> "Under Review"]

AssignForm == [request_id |-> 1, client_id |-> 1, artisan_id |-> 2, final_amount |-> 150]

\* the edit of the project's status and budget
EditForm == [status |-> "Completed", amount |-> 150]

\* the form's status is a text field of the request: any text can be posted
EditForms == {EditForm, [status |-> "Cancelled", amount |-> 150]}

InitAdmin ==
    /\ supabase = TRUE
    /\ workers \in 1..MaxInFlight
    /\ artisan_seq = 2
    /\ artisans = Applicant
    /\ project_requests = <<UnderReview>>
    /\ jobs = <<NewJob(1, 2, 13)>>
    /\ payments = <<>>
    /\ withdrawals = <<>>
    /\ notifications = <<>>
    /\ sessions = {ClientSession(1), AdminSession, ArtisanSession(1)}
    /\ requests = NoRequests
    /\ faults = 0

\* who may send a request: the holder of a session, or a visitor with none
Callers == sessions \cup {NoSession}

NextAdmin ==
    \/ \E r \in Slots, s \in Callers : admin_approve(r, s, 1)
    \/ \E r \in Slots, s \in Callers : admin_reject(r, s, 1)
    \/ \E r \in Slots, s \in Callers : admin_confirm_sub(r, s, 1)
    \/ \E r \in Slots, s \in Callers : admin_assign_job(r, s, AssignForm)
    \/ \E r \in Slots : admin_assign_job_request(r)
    \/ \E r \in Slots : admin_assign_job_artisan(r)
    \/ \E r \in Slots, s \in Callers, form \in EditForms :
           admin_update_project_details(r, s, 1, form)

SpecAdmin == InitAdmin /\ [][NextAdmin]_vars

(***************************************************************************)
(* The end-to-end specification: nobody is registered.  An artisan         *)
(* registers, the admin approves and confirms, the artisan logs in, the    *)
(* client books, the artisan accepts and completes.  Each request is made  *)
(* when the one before it in this order has taken effect; answered         *)
(* exchanges are forgotten, so that the behaviour can go on past           *)
(* MaxRequests requests.                                                   *)
(***************************************************************************)
InitScenario ==
    /\ supabase = TRUE
    /\ workers = 1
    /\ artisan_seq = 0
    /\ artisans = <<>>
    /\ project_requests = <<>>
    /\ jobs = <<>>
    /\ payments = <<>>
    /\ withdrawals = <<>>
    /\ notifications = <<>>
    /\ sessions = {ClientSession(1), AdminSession}
    /\ requests = NoRequests
    /\ faults = 0

\* the answered exchanges are over: their slots serve the next requests
Forget ==
    /\ InFlight = {}
    /\ requests[1].pc = "done"
    /\ requests' = NoRequests
    /\ UNCHANGED <<supabase, workers, artisan_seq, project_requests, tables, sessions,
                   faults>>

\* the registration form of the scenario, at 150 and over the cap
ScenarioForms == [phone : {"0201"}, price_range : {"150", "600"}]

ArtisanSessions == {s \in sessions : s.role = "artisan"}

NextScenario ==
    \/ \E r \in Slots, form \in ScenarioForms :
           artisans = <<>> /\ artisan_register(r, form)
    \/ \E r \in Slots : artisan_register_insert(r)
    \/ \E r \in Slots, a \in DOMAIN artisans :
           ActualStage(artisans[a]) = "docs" /\ admin_approve(r, AdminSession, a)
    \/ \E r \in Slots, a \in DOMAIN artisans :
           ActualStage(artisans[a]) = "payment" /\ admin_confirm_sub(r, AdminSession, a)
    \/ \E r \in Slots, a \in DOMAIN artisans :
           /\ ArtisanSession(a) \notin sessions
           /\ artisan_login(r, artisans[a].phone, "pw")
    \/ \E r \in Slots, a \in DOMAIN artisans :
           jobs = <<>> /\ book_artisan(r, ClientSession(1), a)
    \/ \E r \in Slots : book_artisan_insert(r)
    \/ \E r \in Slots, s \in ArtisanSessions, j \in JobIds :
           jobs[j].status = "Pending" /\ accept_job(r, s, j)
    \/ \E r \in Slots : accept_job_select(r)
    \/ \E r \in Slots : accept_job_notify(r)
    \/ \E r \in Slots, s \in ArtisanSessions, j \in JobIds :
           jobs[j].status = "In Progress" /\ artisan_complete_job(r, s, j)
    \/ \E r \in Slots : artisan_complete_job_update(r)
    \/ \E r \in Slots : artisan_complete_job_insert(r)
    \/ \E r \in Slots : artisan_complete_job_notify(r)
    \/ Forget

SpecScenario == InitScenario /\ [][NextScenario]_vars

(***************************************************************************)
(* The job specification: artisan 1's job as booked, as declined, or as    *)
(* accepted, and the requests of two clients, two artisans and the admin   *)
(* that move it.  The store answers every call.                            *)
(***************************************************************************)
\* the job as book_artisan inserts it: Pending, assigned to the artisan booked
Booked(a) == NewJob(1, a, Onboarded[a].price_range)

\* a logged-in user who is not the job's client
OtherClient == ClientSession(2)

InitJob ==
    /\ supabase = TRUE
    /\ workers \in 1..MaxInFlight
    /\ artisan_seq = 2
    /\ artisans = Onboarded
    /\ project_requests = <<>>
    /\ jobs \in {<<Booked(1)>>, <<Declined(1)>>, <<InProgress(1)>>}
    /\ payments = <<>>
    /\ withdrawals = <<>>
    /\ notifications = <<>>
    /\ sessions = {ClientSession(1), OtherClient, AdminSession}
                     \cup {ArtisanSession(a) : a \in ArtisanIds}
    /\ requests = NoRequests
    /\ faults = MaxFaults

\* the admin's edits of the status, at the job's amount
JobEdits == {form \in AdminForms : form.amount = 150}

NextJob ==
    \/ \E r \in Slots, s \in sessions, j \in JobIds : accept_job(r, s, j)
    \/ \E r \in Slots : accept_job_select(r)
    \/ \E r \in Slots : accept_job_notify(r)
    \/ \E r \in Slots, s \in sessions, j \in JobIds : decline_job(r, s, j)
    \/ \E r \in Slots : decline_job_select(r)
    \/ \E r \in Slots, s \in sessions \cup {NoSession}, j \in JobIds :
           complete_job(r, s, j, [rating |-> 5, review |-> "good"])
    \/ \E r \in Slots : complete_job_update(r)
    \/ \E r \in Slots : complete_job_insert(r)
    \/ \E r \in Slots, s \in sessions, j \in JobIds : artisan_complete_job(r, s, j)
    \/ \E r \in Slots : artisan_complete_job_update(r)
    \/ \E r \in Slots : artisan_complete_job_insert(r)
    \/ \E r \in Slots : artisan_complete_job_notify(r)
    \/ \E r \in Slots, j \in JobIds, form \in JobEdits :
           admin_update_project_details(r, AdminSession, j, form)

SpecJob == InitJob /\ [][NextJob]_vars

(***************************************************************************)
(* The store specification: the process has a store, holding artisan 1's   *)
(* job in progress, or has none (the credentials are missing or the        *)
(* connection failed, and supabase is None); the requests that move money  *)
(* name the job or a job that does not exist, and the store may fail.      *)
(***************************************************************************)
InitStore ==
    /\ supabase \in BOOLEAN
    /\ workers \in 1..MaxInFlight
    /\ artisan_seq = 2
    /\ artisans = Onboarded
    /\ project_requests = <<>>
    /\ jobs = IF supabase THEN <<InProgress(1)>> ELSE <<>>
    /\ payments = <<>>
    /\ withdrawals = <<>>
    /\ notifications = <<>>
    /\ sessions = {ClientSession(1), ArtisanSession(1)}
    /\ requests = NoRequests
    /\ faults = 0

\* the ids of the jobs and one that no job has
JobIdsAndMissing == 1..(Len(jobs) + 1)

NextStore ==
    \/ \E r \in Slots, j \in JobIdsAndMissing :
           complete_job(r, ClientSession(1), j, [rating |-> 5, review |-> "good"])
    \/ \E r \in Slots : complete_job_update(r)
    \/ \E r \in Slots : complete_job_insert(r)
    \/ \E r \in Slots, j \in JobIdsAndMissing :
           artisan_complete_job(r, ArtisanSession(1), j)
    \/ \E r \in Slots : artisan_complete_job_update(r)
    \/ \E r \in Slots : artisan_complete_job_insert(r)
    \/ \E r \in Slots : artisan_complete_job_notify(r)
    \/ \E r \in Slots, amount \in WithdrawalAmounts :
           request_withdrawal(r, ArtisanSession(1), amount)
    \/ \E r \in Slots : request_withdrawal_check(r)
    \/ \E r \in Slots : request_withdrawal_insert(r)
    \/ \E r \in Slots : request_withdrawal_notify(r)

SpecStore == InitStore /\ [][NextStore]_vars

(***************************************************************************)
(* The booking specification: artisan 1 has registered and is not          *)
(* verified, artisan 2 is through onboarding and edits their profile, its  *)
(* price included, while a client and a visitor book.                      *)
(***************************************************************************)
InitBook ==
    /\ supabase = TRUE
    /\ workers \in 1..MaxInFlight
    /\ artisan_seq = 2
    /\ artisans = Applicant
    /\ project_requests = <<>>
    /\ jobs = <<>>
    /\ payments = <<>>
    /\ withdrawals = <<>>
    /\ notifications = <<>>
    /\ sessions = {ClientSession(1), ArtisanSession(2)}
    /\ requests = NoRequests
    /\ faults = 0

NextBook ==
    \/ \E r \in Slots, s \in {ClientSession(1), NoSession}, a \in ArtisanIds :
           book_artisan(r, s, a)
    \/ \E r \in Slots : book_artisan_insert(r)
    \/ \E r \in Slots, form \in ProfileForms :
           update_artisan_profile(r, ArtisanSession(2), form)

SpecBook == InitBook /\ [][NextBook]_vars

(***************************************************************************)
(* The listing specification: a job booked a moment ago in Accra and one   *)
(* more job, at some place, in some status, recent or not; artisan 2 gave  *)
(* one of three towns at registration, or their row is gone; the artisan   *)
(* and a client open the jobs page, the dashboard and the new-jobs poll.   *)
(***************************************************************************)
Towns == {Accra, <<"t", "e", "m", "a">>,
          <<"C", "a", "p", "e", "_", "C", "o", "a", "s", "t">>}

Places == {Tema, CapeCoast}

InitList ==
    /\ supabase = TRUE
    /\ workers \in 1..MaxInFlight
    /\ artisan_seq = 2
    /\ \/ \E town \in Towns : artisans = [Onboarded EXCEPT ![2].town = town]
       \/ artisans = (1 :> Onboarded[1])
    /\ project_requests = <<>>
    /\ \E place \in Places, status \in {"Pending", "In Progress"}, recent \in BOOLEAN :
           jobs = <<NewJob(1, 1, 150),
                    [NewJob(1, 1, 150) EXCEPT !.location = place,
                                              !.status = status,
                                              !.recent = recent]>>
    /\ payments = <<>>
    /\ withdrawals = <<>>
    /\ notifications = <<>>
    /\ sessions = {ClientSession(1), ArtisanSession(2)}
    /\ requests = NoRequests
    /\ faults = 0

NextList ==
    \/ \E r \in Slots, s \in sessions : artisan_jobs(r, s)
    \/ \E r \in Slots, s \in sessions : artisan_dashboard(r, s)
    \/ \E r \in Slots, s \in sessions : check_new_jobs(r, s)

SpecList == InitList /\ [][NextList]_vars

(***************************************************************************)
(* The claims.                                                             *)
(***************************************************************************)
PaymentsOf(j) == {i \in DOMAIN payments : payments[i].job_id = j}

CompletionOps == {"complete_job", "artisan_complete_job"}

\* request r takes a step
Steps(r) == requests'[r] # requests[r]

\* C1: in every reachable state, whatever the interleaving of the completion
\* requests for a Job, the payments table holds at most one Payment of that Job.
C1_AtMostOnePaymentPerJob ==
    \A j \in JobIds : Cardinality(PaymentsOf(j)) <= 1

\* C2: with the requests handled one after the other and none of them an admin
\* edit, a completion request made when an earlier one has completed the Job and
\* inserted its Payment is a no-op: its writes leave the jobs and the payments as
\* they are.
C2_SecondCompletionIsNoOp ==
    [][\A r \in Slots :
          ( /\ workers = 1
            /\ \A o \in Slots : requests[o].op \in CompletionOps \cup {"none"}
            /\ requests[r].pc \in {"update", "insert"}
            /\ Steps(r)
            /\ PaymentsOf(requests[r].job_id) # {} )
          => (jobs' = jobs /\ payments' = payments)]_vars

\* C3: in every reachable state a Job whose status is Completed has exactly one
\* Payment: the status change and the insert take effect together.
C3_CompletedJobHasItsPayment ==
    \A j \in JobIds :
        jobs[j].status = "Completed" => Cardinality(PaymentsOf(j)) = 1

\* C4: for every Payment, artisan_amount + platform_commission = total_amount
\* exactly, and total_amount is the amount of the Job it references.
C4_SplitSumsToAmount ==
    \A i \in DOMAIN payments :
        /\ FAdd(payments[i].artisan_amount, payments[i].platform_commission)
               = FromInt(payments[i].total_amount)
        /\ payments[i].total_amount = jobs[payments[i].job_id].amount

\* the integer nearest to 100 * x, ties to even (x * 100 is exact in the limbs)
Cents(x) ==
    LET y    == LMulSmall(x, 100)
        \* y / 2^55: drop three limbs, then ten bits
        hi   == y[4] + Base * y[5]
        n    == hi \div 1024
        \* the dropped part against one half
        top  == hi % 1024
        rest == y[1] # 0 \/ y[2] # 0 \/ y[3] # 0
        up   == top > 512 \/ (top = 512 /\ (rest \/ n % 2 = 1))
    IN  IF up THEN n + 1 ELSE n

\* round(x, 2), the rounding the settlement rule names
Round2(x) == FDivInt(Cents(x), 100)

\* C5: every Payment records artisan_amount = round(amount * 0.85, 2) and
\* platform_commission = amount - artisan_amount, on either completion path.
C5_RoundedShareAndRemainder ==
    \A i \in DOMAIN payments :
        LET amount == payments[i].total_amount
        IN  /\ payments[i].artisan_amount = Round2(FMulInt(amount, F085))
            /\ payments[i].platform_commission
                   = FSub(FromInt(amount), payments[i].artisan_amount)

Exceeds(amount, earned, withdrawn) == LLess(earned, LAdd(amount, withdrawn))

C8_NoOverdrawingPair ==
    \A v, w \in DOMAIN withdrawals :
        LET a == withdrawals[v].artisan_id
            B == TotalEarned(a)
        IN  ( /\ v # w
              /\ withdrawals[w].artisan_id = a
              /\ TotalWithdrawn(a) = LZero
              /\ ~LLess(B, withdrawals[v].amount)
              /\ ~LLess(B, withdrawals[w].amount) )
            => ~LLess(B, LAdd(withdrawals[v].amount, withdrawals[w].amount))

\* C9: an accept_job write made while another artisan's accept_job on the same
\* Job is being handled takes effect only if the Job is still Pending and
\* unassigned; otherwise the attempt writes nothing and reports failure.
C9_AcceptRaceHasOneWinner ==
    [][\A r, o \in Slots :
          LET q2 == requests'[r]
              j  == q2.job_id
          IN  ( /\ requests[r].pc = "idle"
                /\ q2.op = "accept_job"
                /\ o \in InFlight
                /\ requests[o].op = "accept_job"
                /\ requests[o].job_id = j
                /\ requests[o].session # q2.session )
              => \/ jobs[j].status = "Pending" /\ jobs[j].artisan_id = None
                 \/ /\ jobs' = jobs
                    /\ q2.pc = "done"
                    /\ q2.response # "success"]_vars

ArtisanOps ==
    {"accept_job", "decline_job", "artisan_complete_job", "request_withdrawal",
     "artisan_dashboard"}

\* C10: a step of an artisan operation requested with the session of an artisan
\* whose stored record is not both verified and subscribed changes no table and
\* answers with the redirect to the artisan's stage.
C10_GateBeforeArtisanOperations ==
    [][\A r \in Slots :
          LET q2 == requests'[r]
              a  == q2.session.user_id
          IN  ( /\ Steps(r)
                /\ q2.op \in ArtisanOps
                /\ q2.session.role = "artisan"
                /\ a \in DOMAIN artisans
                /\ ~(artisans[a].is_verified /\ artisans[a].subscription_active) )
              => /\ tables' = tables
                 /\ q2.pc = "done"
                 /\ q2.response = LoginRedirect(artisans[a])]_vars

\* C14: the amount of an existing Job never changes, so that it stays the amount
\* the Job was created with.
C14_AmountFixedAtCreation ==
    [][\A j \in JobIds : jobs'[j].amount = jobs[j].amount]_vars

\* C20: an accept_job that the store answers, made while no other request is
\* being handled, turns a Pending Job into an In Progress Job of the accepting
\* artisan and notifies the Job's client; on a Job that is In Progress or
\* Completed it leaves status and artisan_id as they were.
C20_AcceptOnlyPending ==
    [][\A r \in Slots :
          LET q  == requests[r]
              q2 == requests'[r]
              j  == q2.job_id
          IN  /\ ( /\ q.pc = "idle"
                   /\ InFlight = {}
                   /\ q2.op = "accept_job"
                   /\ q2.pc = "select"
                   /\ j \in JobIds )
                 => IF jobs[j].status = "Pending"
                    THEN /\ jobs'[j].status = "In Progress"
                         /\ jobs'[j].artisan_id = q2.session.user_id
                    ELSE /\ jobs'[j].status = jobs[j].status
                         /\ jobs'[j].artisan_id = jobs[j].artisan_id
              /\ ( /\ q.op = "accept_job"
                   /\ q.pc = "notify"
                   /\ q2.response = "success" )
                 => notifications' = Append(notifications,
                        [user_id |-> jobs[q.job_id].client_id, type |-> "job_update"])
      ]_vars

\* the rule of the onboarding gate: the stage of a pair of flags
resolveStage(is_verified, subscription_active) ==
    IF ~is_verified THEN "docs"
    ELSE IF ~subscription_active THEN "payment"
    ELSE "complete"

StageOf(artisan) == resolveStage(artisan.is_verified, artisan.subscription_active)

\* C11: a step that changes is_verified or subscription_active of an Artisan
\* record is a step of an admin_approve or admin_confirm_sub request made with
\* an admin session.
C11_OnlyAdminWritesFlags ==
    [][\A a \in DOMAIN artisans \cap DOMAIN artisans' :
          ( \/ artisans'[a].is_verified # artisans[a].is_verified
            \/ artisans'[a].subscription_active # artisans[a].subscription_active )
          => \E r \in Slots :
                 /\ Steps(r)
                 /\ requests'[r].session.role = "admin"
                 /\ requests'[r].op \in {"admin_approve", "admin_confirm_sub"}]_vars

\* where a redirect of the login and status pages leads, as a stage
StageOfRedirect ==
    ("pending docs" :> "docs") @@ ("pending payment" :> "payment")
        @@ ("artisan_dashboard" :> "complete")

\* the artisans whose phone and password a login form gives
LoggingIn(name, password) ==
    {a \in DOMAIN artisans : artisans[a].phone = name /\ artisans[a].password = password}

StageRank == ("docs" :> 1) @@ ("payment" :> 2) @@ ("complete" :> 3)

\* C13: the stage of an existing Artisan never moves backward, and moves to
\* complete only from payment.
C13_StageMonotonic ==
    [][\A a \in DOMAIN artisans \cap DOMAIN artisans' :
          LET before == StageOf(artisans[a])
              after  == StageOf(artisans'[a])
          IN  /\ StageRank[after] >= StageRank[before]
              /\ (after = "complete" /\ before # "complete") => before = "payment"]_vars

\* C15: a booking passes the artisan check, and goes on to insert its Job, only
\* for an Artisan whose record is verified and subscribed at that time.
C15_BookOnlyOnboarded ==
    [][\A r \in Slots :
          LET q2 == requests'[r]
              a  == q2.form.artisan_id
          IN  (requests[r].pc = "idle" /\ q2.op = "book_artisan" /\ q2.pc = "insert")
              => /\ a \in DOMAIN artisans
                 /\ artisans[a].is_verified
                 /\ artisans[a].subscription_active]_vars

\* C16: a registration whose price field reads as a number above 500 is
\* answered with the cap's error at once and leaves the artisans table as it
\* was, and every record a registration inserts has a price of at most 500.
C16_RegistrationPriceCap ==
    [][\A r \in Slots :
          LET q  == requests[r]
              q2 == requests'[r]
          IN  /\ ( /\ q.pc = "idle"
                   /\ q2.op = "artisan_register"
                   /\ q2.form.price_range \in DOMAIN PriceOf
                   /\ PriceOf[q2.form.price_range] > 500 )
                 => /\ q2.pc = "done"
                    /\ q2.response = "flash_cap"
                    /\ artisans' = artisans
              /\ (q.op = "artisan_register" /\ Steps(r))
                 => \A a \in DOMAIN artisans' \ DOMAIN artisans :
                        /\ artisans'[a].price_range <= 500
                        /\ q.form.price_range \in DOMAIN PriceOf
                              => artisans'[a].price_range = PriceOf[q.form.price_range]
      ]_vars

\* C16's case: a registration at 600 was refused, one at the cap of 500 was
\* recorded, and the table holds the one new record
C16_Witness ==
    /\ \E r \in Slots :
           /\ requests[r].op = "artisan_register"
           /\ requests[r].form.price_range = "600"
           /\ requests[r].response = "flash_cap"
    /\ \E r \in Slots :
           /\ requests[r].op = "artisan_register"
           /\ requests[r].form.price_range = "500"
           /\ requests[r].response = "flash_submitted"
    /\ DOMAIN artisans = {1, 2, 3}
    /\ artisans[3].price_range = 500

\* C17: no two Artisan records have the same phone.
C17_PhonesUnique ==
    \A a, b \in DOMAIN artisans : a # b => artisans[a].phone # artisans[b].phone

AdminOps ==
    {"admin_approve", "admin_reject", "admin_confirm_sub", "admin_assign_job",
     "admin_update_project_details"}

\* C18: an admin operation requested without a session, or with a session
\* whose role is not admin, is answered with the redirect at once and leaves
\* artisans, jobs and project_requests as they were; the store calls of the
\* admin operations are all made for admin sessions.
C18_AdminOnly ==
    [][\A r \in Slots :
          LET q  == requests[r]
              q2 == requests'[r]
          IN  /\ ( /\ q.pc = "idle"
                   /\ q2.op \in AdminOps
                   /\ q2.session.role # "admin" )
                 => /\ q2.pc = "done"
                    /\ q2.response = "redirect_index"
                    /\ artisans' = artisans
                    /\ jobs' = jobs
                    /\ project_requests' = project_requests
              /\ (q.op \in AdminOps /\ Steps(r)) => q.session.role = "admin"
      ]_vars

\* C18's case: the applicant asked for the applicant's own approval and a
\* visitor for the rejection, both were redirected and the record is as it was,
\* while the admin's assignment went through
C18_Witness ==
    /\ \E r \in Slots :
           /\ requests[r].op = "admin_approve"
           /\ requests[r].session = ArtisanSession(1)
           /\ requests[r].response = "redirect_index"
    /\ \E r \in Slots :
           /\ requests[r].op = "admin_reject"
           /\ requests[r].session = NoSession
           /\ requests[r].response = "redirect_index"
    /\ 1 \in DOMAIN artisans
    /\ artisans[1] = Applicant[1]
    /\ \E r \in Slots :
           /\ requests[r].op = "admin_assign_job"
           /\ requests[r].session = AdminSession
           /\ requests[r].response = "flash_success"
    /\ project_requests[1].status = "Approved"

\* 127.50 and 22.50
Cedis127_50 == FDivInt(255, 2)

Cedis22_50 == FDivInt(45, 2)

\* C19: each step of the end-to-end scenario has the stated effect.  A
\* registration at 150 inserts a record in stage docs with price 150; the
\* admin's approval of it gives stage payment; the confirmation gives stage
\* complete; a booking inserts a Pending Job at the artisan's price, 150; the
\* accept makes it In Progress; the artisan's completion makes it Completed and
\* inserts one Payment, of 127.50 and 22.50 summing to 150 when the amount is 150.
C19_EndToEndScenario ==
    [][\A r \in Slots :
          LET q  == requests[r]
              q2 == requests'[r]
              a  == q2.form.artisan_id
              j  == q2.job_id
          IN  /\ (q.op = "artisan_register" /\ q.pc = "insert"
                    /\ q2.response = "flash_submitted")
                 => /\ DOMAIN artisans' = DOMAIN artisans \cup {artisan_seq'}
                    /\ artisan_seq' \notin DOMAIN artisans
                    /\ StageOf(artisans'[artisan_seq']) = "docs"
                    /\ q.form.price_range = "150"
                          => artisans'[artisan_seq'].price_range = 150
              /\ (q.pc = "idle" /\ q2.op = "admin_approve"
                    /\ q2.response = "flash_success"
                    /\ a \in DOMAIN artisans
                    /\ ~artisans[a].is_verified /\ ~artisans[a].subscription_active)
                 => StageOf(artisans'[a]) = "payment"
              /\ (q.pc = "idle" /\ q2.op = "admin_confirm_sub"
                    /\ q2.response = "flash_success"
                    /\ a \in DOMAIN artisans
                    /\ StageOf(artisans[a]) = "payment")
                 => StageOf(artisans'[a]) = "complete"
              /\ (q.op = "book_artisan" /\ q.pc = "insert"
                    /\ q2.response = "flash_success")
                 => /\ Len(jobs') = Len(jobs) + 1
                    /\ jobs'[Len(jobs')].status = "Pending"
                    /\ jobs'[Len(jobs')].artisan_id = a
                    /\ jobs'[Len(jobs')].amount = artisans[a].price_range
              /\ (q.pc = "idle" /\ q2.op = "accept_job" /\ q2.pc = "select"
                    /\ jobs[j].status = "Pending")
                 => /\ jobs'[j].status = "In Progress"
                    /\ jobs'[j].amount = jobs[j].amount
              /\ (q.op = "artisan_complete_job" /\ q.pc = "update" /\ q2.pc = "insert")
                 => /\ jobs'[j].status = "Completed"
                    /\ jobs'[j].amount = jobs[j].amount
              /\ (q.op = "artisan_complete_job" /\ q.pc = "insert" /\ q2.pc = "notify")
                 => /\ Len(payments') = Len(payments) + 1
                    /\ SubSeq(payments', 1, Len(payments)) = payments
                    /\ LET p == payments'[Len(payments')]
                       IN  /\ p.job_id = j
                           /\ p.total_amount = q.amount
                           /\ p.total_amount = 150
                                 => /\ p.artisan_amount = Cedis127_50
                                    /\ p.platform_commission = Cedis22_50
                                    /\ FAdd(p.artisan_amount, p.platform_commission)
                                           = FromInt(150)
      ]_vars

\* C19's case, the end of the scenario: the artisan registered at 150 is in
\* stage complete, the one Job is Completed at 150 with that artisan, and the
\* one Payment is of 127.50 and 22.50
C19_Witness ==
    /\ DOMAIN artisans = {1}
    /\ artisans[1].price_range = 150
    /\ StageOf(artisans[1]) = "complete"
    /\ Len(jobs) = 1
    /\ jobs[1].status = "Completed"
    /\ jobs[1].amount = 150
    /\ jobs[1].artisan_id = 1
    /\ Len(payments) = 1
    /\ payments[1].job_id = 1
    /\ payments[1].artisan_amount = Cedis127_50
    /\ payments[1].platform_commission = Cedis22_50
    /\ \E r \in Slots :
           /\ requests[r].op = "artisan_complete_job"
           /\ requests[r].response = "success"

\* the request that arrives in slot r in this step, as the handler op receives it
Arriving(r, op) ==
    /\ requests[r].pc = "idle"
    /\ requests'[r].op = op

\* C21: decline_job by the artisan to whom a Pending job is assigned sets the
\* job Pending, clears artisan_id and records declined_by; decline_job on a job
\* that is In Progress or Completed, or by an artisan who is not the assigned
\* one, leaves the jobs unchanged.
C21_DeclineOnlyAssignedPending ==
    [][\A r \in Slots :
          LET s == requests'[r].session
              j == requests'[r].job_id
          IN  (Arriving(r, "decline_job") /\ ~NotArtisan(s) /\ j \in JobIds)
              => IF jobs[j].status = "Pending" /\ jobs[j].artisan_id = s.user_id
                 THEN jobs' = [jobs EXCEPT ![j] =
                                  [@ EXCEPT !.status = "Pending",
                                            !.artisan_id = None,
                                            !.declined_by = s.user_id]]
                 ELSE jobs' = jobs
      ]_vars

\* C22: Completed is terminal.  No step changes the status or the artisan_id
\* of a job whose status is Completed.
C22_CompletedIsTerminal ==
    [][\A j \in JobIds :
          jobs[j].status = "Completed"
          => /\ jobs'[j].status = "Completed"
             /\ jobs'[j].artisan_id = jobs[j].artisan_id
      ]_vars

\* C23: a completion request completes a job, and inserts its payment, only
\* when the job is In Progress with an artisan assigned: the update of
\* complete_job or artisan_complete_job is made on such a job only, and no
\* payment has a null artisan_id.
C23_CompletionOnlyFromInProgress ==
    [][/\ \A r \in Slots :
             LET q == requests[r]
             IN  (q.op \in CompletionOps /\ q.pc = "update" /\ Steps(r)
                    /\ jobs' # jobs)
                 => /\ jobs[q.job_id].status = "In Progress"
                    /\ jobs[q.job_id].artisan_id # None
       /\ \A i \in DOMAIN payments' : payments'[i].artisan_id # None
      ]_vars

\* C24: every payment credits the parties of its job.  The payment that a
\* completion request inserts has the artisan_id and the client_id that the job
\* it references has when it is inserted, whichever path and session inserts it.
C24_PaymentCreditsJobParties ==
    [][\A r \in Slots :
          LET q == requests[r]
          IN  (q.op \in CompletionOps /\ q.pc = "insert" /\ Steps(r)
                /\ payments' # payments)
              => LET p == payments'[Len(payments')]
                 IN  /\ p.job_id = q.job_id
                     /\ p.artisan_id = jobs[q.job_id].artisan_id
                     /\ p.client_id = jobs[q.job_id].client_id
      ]_vars

\* the session is the one of job j's client
IsClientOf(s, j) == s.role = "general" /\ s.user_id = jobs[j].client_id

\* the session is the one of job j's assigned artisan
IsArtisanOf(s, j) == s.role = "artisan" /\ s.user_id = jobs[j].artisan_id

Unauthorized == {"redirect_login", "401"}

\* C25: the job transitions enforce ownership.  A complete_job request of a
\* session that is not the job's client, and an artisan_complete_job request of
\* a session that is not the job's assigned artisan, is answered Unauthorized on
\* arrival, and no step of such a request changes the jobs or the payments.
C25_CompletionEnforcesOwnership ==
    [][\A r \in Slots :
          LET q  == requests[r]
              q2 == requests'[r]
              Owns(op, s, j) == IF op = "complete_job" THEN IsClientOf(s, j)
                                ELSE IsArtisanOf(s, j)
          IN  /\ (\E op \in CompletionOps : Arriving(r, op))
                   /\ q2.job_id \in JobIds
                   /\ ~Owns(q2.op, q2.session, q2.job_id)
                 => /\ q2.pc = "done"
                    /\ q2.response \in Unauthorized
              /\ (q.op \in CompletionOps /\ Steps(r)
                    /\ ~Owns(q.op, q.session, q.job_id))
                 => /\ jobs' = jobs
                    /\ payments' = payments
      ]_vars

Success == {"flash_success", "success"}

\* C26: the operations that move money report success only with their write.
\* complete_job answers success only from the step that inserts the payment
\* of the job it set Completed; artisan_complete_job and request_withdrawal
\* answer success only after their insert, whose row is in the table.  A
\* request naming a job that does not exist, or made without a store, is
\* therefore not answered with success.
C26_NoSuccessWithoutWrite ==
    [][\A r \in Slots :
          LET q  == requests[r]
              q2 == requests'[r]
          IN  (Steps(r) /\ q2.pc = "done" /\ q2.response \in Success)
              => /\ q2.op = "complete_job"
                    => /\ q.pc = "insert"
                       /\ Len(payments') = Len(payments) + 1
                       /\ payments'[Len(payments')].job_id = q2.job_id
                 /\ q2.op = "artisan_complete_job"
                    => /\ q.pc = "notify"
                       /\ PaymentsOf(q2.job_id) # {}
                 /\ q2.op = "request_withdrawal"
                    => /\ q.pc = "notify"
                       /\ \E w \in DOMAIN withdrawals :
                              /\ withdrawals[w].artisan_id = q2.session.user_id
                              /\ withdrawals[w].amount = q2.form.amount
      ]_vars

PaymentStatuses == {"Processing", "Completed"}

\* C27: the payment that artisan_complete_job inserts has status Processing,
\* the one that complete_job inserts has status Completed, and every payment's
\* status is one of the two.
C27_PaymentInitialStatus ==
    [][/\ \A r \in Slots :
             LET q == requests[r]
             IN  (q.op \in CompletionOps /\ q.pc = "insert" /\ Steps(r)
                    /\ payments' # payments)
                 => /\ Len(payments') = Len(payments) + 1
                    /\ payments'[Len(payments')].status =
                           IF q.op = "artisan_complete_job" THEN "Processing"
                           ELSE "Completed"
       /\ \A i \in DOMAIN payments' : payments'[i].status \in PaymentStatuses
      ]_vars

\* C27's case: each path has inserted a payment
C27_Witness ==
    /\ \E i \in DOMAIN payments : payments[i].status = "Processing"
    /\ \E i \in DOMAIN payments : payments[i].status = "Completed"
    /\ \E r \in Slots : requests[r].op = "artisan_complete_job" /\ requests[r].pc \in {"notify", "done"}
    /\ \E r \in Slots : requests[r].op = "complete_job" /\ requests[r].response = "flash_success"

\* what artisan a's payments earned, those of status Processing left out
EarnedNotProcessing(a) ==
    LET Counted(p) == p.artisan_id = a /\ p.status # "Processing"
        rows == SelectSeq(payments, Counted)
    IN  FSum([i \in DOMAIN rows |-> rows[i].artisan_amount])

\* C28: payments are never updated or deleted: every step leaves each payment
\* as it is and only appends.  The earnings that request_withdrawal reads for
\* its balance check therefore never include a payment inserted as Processing.
C28_PaymentsImmutable ==
    [][/\ Len(payments') >= Len(payments)
       /\ \A i \in DOMAIN payments : payments'[i] = payments[i]
       /\ \A r \in Slots :
             (Arriving(r, "request_withdrawal") /\ requests'[r].pc = "withdrawals")
             => requests'[r].total_earned
                    = EarnedNotProcessing(requests'[r].session.user_id)
      ]_vars

\* C28's case: artisan 1 has a Processing payment and no Completed one, and a
\* withdrawal request of theirs was refused for insufficient balance
C28_Witness ==
    /\ \E i \in DOMAIN payments :
           payments[i].artisan_id = 1 /\ payments[i].status = "Processing"
    /\ \A i \in DOMAIN payments : payments[i].status = "Processing"
    /\ \E r \in Slots :
           /\ requests[r].op = "request_withdrawal"
           /\ requests[r].session = ArtisanSession(1)
           /\ requests[r].response = "400 insufficient"

\* the flags as check_artisan_status reports them
FlagsOf(artisan) ==
    (IF artisan.is_verified THEN "verified" ELSE "unverified")
        \o " " \o (IF artisan.subscription_active THEN "subscribed" ELSE "unsubscribed")

\* the admin has changed a flag of artisan a
AdminChanged(a) ==
    \E r \in Slots :
        /\ requests[r].op \in {"admin_approve", "admin_confirm_sub"}
        /\ requests[r].response = "flash_success"
        /\ requests[r].form.artisan_id = a

\* C29: the stage is recomputed from the stored record on every status check.
\* After the admin has changed an artisan's flags, a status check of that
\* artisan answers with the stage of the stored flags: pending_approval shows
\* it whatever the stage of the URL, check_status_page redirects to it, and
\* check_artisan_status reports the stored flags or an error.
C29_StatusCheckReadsTheRecord ==
    [][\A r \in Slots :
          LET q2   == requests'[r]
              a    == q2.session.user_id
              resp == q2.response
          IN  (Steps(r) /\ q2.pc = "done" /\ AdminChanged(a) /\ a \in DOMAIN artisans)
              => /\ q2.op = "pending_approval" => resp = StageOf(artisans[a])
                 /\ q2.op = "check_status_page"
                       => StageOfRedirect[resp] = StageOf(artisans[a])
                 /\ q2.op = "check_artisan_status"
                       => resp \in {FlagsOf(artisans[a]), "500"}
      ]_vars

\* the access checks of an artisan's session
AccessChecks == {"pending_approval", "check_status_page", "artisan_dashboard"}

\* C30: when the record of the session's artisan no longer exists, every
\* access check made with that session forces logout: pending_approval,
\* check_status_page and artisan_dashboard answer with the redirect to logout
\* and serve no page.
C30_MissingRecordForcesLogout ==
    [][\A r \in Slots :
          LET q2 == requests'[r]
          IN  (Steps(r) /\ q2.pc = "done" /\ q2.op \in AccessChecks
                 /\ q2.session.role = "artisan"
                 /\ q2.session.user_id \notin DOMAIN artisans)
              => q2.response = "redirect_logout"
      ]_vars

\* C31: a successful self-registration creates exactly one Artisan record, with
\* is_verified and subscription_active false, status Available and rating 5.0,
\* whatever the form carries: the step that answers a registration with the
\* message of success adds one row of that kind and leaves the others alone.
C31_RegistrationCreatesOneRecord ==
    [][\A r \in Slots :
          LET q2 == requests'[r]
          IN  (Steps(r) /\ q2.op = "artisan_register" /\ q2.pc = "done"
                 /\ q2.response = "flash_submitted")
              => \E a \in DOMAIN artisans' \ DOMAIN artisans :
                     /\ DOMAIN artisans' = DOMAIN artisans \cup {a}
                     /\ \A b \in DOMAIN artisans : artisans'[b] = artisans[b]
                     /\ ~artisans'[a].is_verified
                     /\ ~artisans'[a].subscription_active
                     /\ artisans'[a].status = "Available"
                     /\ artisans'[a].rating = 5
      ]_vars

\* C32: a direct booking creates exactly one job, Pending, of the booking
\* client and the booked artisan, at that artisan's base price as stored when
\* the booking is made: the booking that goes on to its insert has read a
\* verified artisan's stored price, and the step that answers it with success
\* appends one job with that amount.
C32_BookingCreatesOnePendingJob ==
    [][\A r \in Slots :
          LET q  == requests[r]
              q2 == requests'[r]
              a  == q2.form.artisan_id
          IN  /\ (Arriving(r, "book_artisan") /\ q2.pc = "insert")
                 => /\ a \in DOMAIN artisans
                    /\ q2.amount = artisans[a].price_range
              /\ (Steps(r) /\ q.op = "book_artisan" /\ q2.pc = "done"
                    /\ q2.response = "flash_success")
                 => /\ Len(jobs') = Len(jobs) + 1
                    /\ SubSeq(jobs', 1, Len(jobs)) = jobs
                    /\ LET job == jobs'[Len(jobs')]
                       IN  /\ job.status = "Pending"
                           /\ job.client_id = q.session.user_id
                           /\ job.artisan_id = a
                           /\ job.amount = q.amount
      ]_vars

\* C32's case: client 1 has booked artisan 2 at the price of 150 that the
\* artisan had set, and the one job is Pending at 150
C32_Witness ==
    /\ Len(jobs) = 1
    /\ jobs[1] = NewJob(1, 2, 150)
    /\ artisans[2].price_range = 150
    /\ \E r \in Slots :
           /\ requests[r].op = "book_artisan"
           /\ requests[r].session = ClientSession(1)
           /\ requests[r].response = "flash_success"

\* C33: admin_assign_job creates one Pending job of the chosen artisan at the
\* final amount, sets the project request Approved and the artisan Busy, and
\* the three writes take effect together or not at all: a request answered with
\* success has made all three, and a request answered with the error has made
\* none, so that it fails before its first write.
C33_AssignmentAllOrNothing ==
    [][\A r \in Slots :
          LET q    == requests[r]
              q2   == requests'[r]
              form == q2.form
          IN  (Steps(r) /\ q2.op = "admin_assign_job" /\ q2.pc = "done"
                 /\ admin_required(q2.session))
              => /\ q2.response = "flash_success"
                    => /\ \E j \in DOMAIN jobs' :
                              /\ jobs'[j].artisan_id = form.artisan_id
                              /\ jobs'[j].client_id = form.client_id
                              /\ jobs'[j].amount = form.final_amount
                       /\ project_requests'[form.request_id].status = "Approved"
                       /\ artisans'[form.artisan_id].status = "Busy"
                 /\ q2.response = "flash_error" => q.pc = "idle"
      ]_vars

\* the admin_assign_job requests for project request id whose job is inserted
Assigned(id) ==
    {r \in Slots :
        /\ requests[r].op = "admin_assign_job"
        /\ requests[r].form.request_id = id
        /\ \/ requests[r].pc \in {"request", "artisan"}
           \/ requests[r].pc = "done" /\ requests[r].response = "flash_success"}

\* C34: a project request becomes at most one job.  With the requests handled
\* one after the other, admin_assign_job inserts a job only for a request
\* whose status is Under Review, and only when no earlier assignment of that
\* request has inserted its job.
C34_RequestBecomesOneJob ==
    [][\A r \in Slots :
          LET id == requests'[r].form.request_id
          IN  (workers = 1 /\ Arriving(r, "admin_assign_job") /\ jobs' # jobs)
              => /\ project_requests[id].status = "Under Review"
                 /\ Assigned(id) = {}
      ]_vars

ListingOps == {"artisan_jobs", "artisan_dashboard", "check_new_jobs"}

\* the town is part of the text, whatever the case of the letters
Contains(text, town) ==
    \E i \in 0..(Len(text) - Len(town)) :
        \A k \in 1..Len(town) : Fold(text[i + k]) = Fold(town[k])

\* the pending jobs whose location contains the town of artisan a
Visible(a) ==
    {j \in JobIds : /\ jobs[j].status = "Pending"
                    /\ Contains(jobs[j].location, artisans[a].town)}

\* C35: when the store answers, the jobs that the jobs page lists, that the
\* dashboard counts and that the new-jobs poll counts for an artisan are
\* exactly the pending jobs whose location contains the artisan's town, in
\* any case of the letters.
C35_ListsPendingJobsOfTown ==
    \A r \in Slots :
        LET s == requests[r].session
        IN  /\ faults = 0
            /\ requests[r].op \in ListingOps
            /\ requests[r].response \in {"artisan_jobs.html", "artisan_dashboard.html",
                                         "new_jobs"}
            /\ s.user_id \in DOMAIN artisans
            => requests[r].listed = Visible(s.user_id)

\* C36: every job's status is Pending, In Progress or Completed, whatever
\* assignments and admin project edits were made.
C36_JobStatusIsOneOfThree ==
    \A j \in JobIds : jobs[j].status \in JobStatuses

\* C37: a job that carries a rating or a review is Completed, here with the
\* requests served one after the other.
C37_RatedJobsAreCompleted ==
    \A j \in JobIds :
        /\ workers = 1
        /\ jobs[j].rating # None \/ jobs[j].review # NoReview
        => jobs[j].status = "Completed"

\* C38: every artisan's base price is at most the cap of 500, and so is the
\* amount of every booked job.
C38_PricesWithinCap ==
    /\ \A a \in DOMAIN artisans : artisans[a].price_range <= PriceCap
    /\ \A j \in JobIds : jobs[j].amount <= PriceCap

\* C39: an accept_job request of an artisan leaves alone a Pending job that
\* is booked with or assigned to another artisan: neither its artisan nor
\* its status changes.
C39_OnlyTheAssignedArtisanAccepts ==
    [][\A r \in Slots, j \in JobIds :
           /\ Arriving(r, "accept_job")
           /\ jobs[j].status = "Pending"
           /\ jobs[j].artisan_id \in ArtisanIds
           /\ requests'[r].session.user_id # jobs[j].artisan_id
           => /\ jobs'[j].artisan_id = jobs[j].artisan_id
              /\ jobs'[j].status = "Pending"]_vars

====
